---------------------------- MODULE Spec2Model ----------------------------
(***************************************************************************)
(* Model of the markdown-to-ADF converter of JiraService                   *)
(* (parseMarkdownInline, buildParagraph, buildTableNode,                   *)
(* parseMarkdownBlocks, createTextADF).                                    *)
(*                                                                         *)
(* A string is a sequence of one-character strings.  A node of the         *)
(* document is a record with the fields of the JSON value the code builds; *)
(* a property the code leaves undefined is a field the record lacks.       *)
(* List nodes and list items are mutated through references after they     *)
(* are created, so they live in a heap and are referred to by              *)
(* [type |-> "ref", id |-> n] until the call returns.                      *)
(***************************************************************************)
EXTENDS Integers, Sequences, FiniteSets, TLC

(***************************************************************************)
(* Bounds of the model.                                                    *)
(***************************************************************************)
MaxLines == 3

(***************************************************************************)
(* Characters.                                                             *)
(***************************************************************************)
WhiteSpace == {" ", "\t", "\r", "\n"}
LineTerminators == {"\r", "\n"}
Digits == {"0", "1", "2", "3", "4", "5", "6", "7", "8", "9"}
Letters == {"a", "b", "c", "j", "s"}
WordChars == Letters \cup Digits \cup {"_"}

\* The backquote character (U+0060), which a string literal of this
\* language cannot hold.
BQ == "U+0060"

DigitValue(c) ==
  CASE c = "0" -> 0 [] c = "1" -> 1 [] c = "2" -> 2 [] c = "3" -> 3
    [] c = "4" -> 4 [] c = "5" -> 5 [] c = "6" -> 6 [] c = "7" -> 7
    [] c = "8" -> 8 [] c = "9" -> 9

(***************************************************************************)
(* String primitives of the language runtime, on sequences of characters.  *)
(***************************************************************************)
Slice(s, from) == SubSeq(s, from + 1, Len(s))

SliceTo(s, from, to) == SubSeq(s, from + 1, to)

\* Number of leading characters of s that belong to class.
RECURSIVE LeadingCount(_, _)
LeadingCount(s, class) ==
  IF s # <<>> /\ Head(s) \in class THEN 1 + LeadingCount(Tail(s), class) ELSE 0

\* Number of trailing characters of s that belong to class.
RECURSIVE TrailingCount(_, _)
TrailingCount(s, class) ==
  IF s # <<>> /\ s[Len(s)] \in class
    THEN 1 + TrailingCount(SubSeq(s, 1, Len(s) - 1), class)
    ELSE 0

TrimStart(s) == Slice(s, LeadingCount(s, WhiteSpace))

TrimEnd(s) == SubSeq(s, 1, Len(s) - TrailingCount(s, WhiteSpace))

Trim(s) == TrimEnd(TrimStart(s))

Includes(s, c) == \E k \in 1..Len(s) : s[k] = c

All(s, class) == \A k \in 1..Len(s) : s[k] \in class

\* s.indexOf(c, from), 0-based; -1 when c does not occur at or after from.
IndexFrom(s, c, from) ==
  IF \E k \in (from + 1)..Len(s) : s[k] = c
    THEN (CHOOSE k \in (from + 1)..Len(s) :
            s[k] = c /\ \A m \in (from + 1)..(k - 1) : s[m] # c) - 1
    ELSE -1

StartsWith(s, p) == Len(s) >= Len(p) /\ SubSeq(s, 1, Len(p)) = p

\* s.split(c): the pieces of s between the occurrences of c (never empty).
RECURSIVE Split(_, _)
Split(s, c) ==
  LET k == IndexFrom(s, c, 0) IN
    IF k = -1 THEN <<s>>
    ELSE <<SliceTo(s, 0, k)>> \o Split(Slice(s, k + 1), c)

\* parts.join(sep)
RECURSIVE Join(_, _)
Join(parts, sep) ==
  IF parts = <<>> THEN <<>>
  ELSE IF Len(parts) = 1 THEN parts[1]
  ELSE parts[1] \o sep \o Join(Tail(parts), sep)

\* text.replace(/\r\n/g, "\n")
RECURSIVE NormalizeNewlines(_)
NormalizeNewlines(s) ==
  IF s = <<>> THEN <<>>
  ELSE IF StartsWith(s, <<"\r", "\n">>)
    THEN <<"\n">> \o NormalizeNewlines(Slice(s, 2))
    ELSE <<Head(s)>> \o NormalizeNewlines(Tail(s))

\* Number(digits) for a non-empty run of decimal digits.
RECURSIVE Number(_)
Number(digits) ==
  IF digits = <<>> THEN 0
  ELSE 10 * Number(SubSeq(digits, 1, Len(digits) - 1))
         + DigitValue(digits[Len(digits)])

(***************************************************************************)
(* Inline tokenizer: parseMarkdownInline.                                  *)
(***************************************************************************)
NoMatch == [matched |-> FALSE]

\* MatchDelimited, were the class to admit the delimiter's character
MatchDelimitedAnyChar(remaining, open, c) ==
  LET n == Len(open)
      close == IndexFrom(remaining, c, n + 1)
  IN IF /\ StartsWith(remaining, open)
        /\ close > n
        /\ StartsWith(Slice(remaining, close), open)
       THEN [matched |-> TRUE,
             text |-> SliceTo(remaining, n, close),
             length |-> close + n]
       ELSE NoMatch

\* /^<open>([^c]+)<open>/ where open is one or two copies of the character
\* c: the greedy class runs to the first c after the opening delimiter.
MatchDelimited(remaining, open, c) ==
  LET n == Len(open)
      close == IndexFrom(remaining, c, n)
  IN IF /\ StartsWith(remaining, open)
        /\ close > n
        /\ StartsWith(Slice(remaining, close), open)
       THEN [matched |-> TRUE,
             text |-> SliceTo(remaining, n, close),
             length |-> close + n]
       ELSE NoMatch

\* /^\[([^\]]+)\]\(([^)]+)\)/
MatchLink(remaining) ==
  LET close == IndexFrom(remaining, "]", 1)
      paren == IndexFrom(remaining, ")", close + 2)
  IN IF /\ StartsWith(remaining, <<"[">>)
        /\ close > 1
        /\ StartsWith(Slice(remaining, close + 1), <<"(">>)
        /\ paren > close + 2
       THEN [matched |-> TRUE,
             text |-> SliceTo(remaining, 1, close),
             href |-> SliceTo(remaining, close + 2, paren),
             length |-> paren + 1]
       ELSE NoMatch

\* The patterns array, in the order the loop tries them.
PatternMarks == <<"strike", "strong", "em", "strong", "em", "code", "link">>

PatternMatch(p, remaining) ==
  CASE p = 1 -> MatchDelimited(remaining, <<"~", "~">>, "~")
    [] p = 2 -> MatchDelimited(remaining, <<"*", "*">>, "*")
    [] p = 3 -> MatchDelimited(remaining, <<"*">>, "*")
    [] p = 4 -> MatchDelimited(remaining, <<"_", "_">>, "_")
    [] p = 5 -> MatchDelimited(remaining, <<"_">>, "_")
    [] p = 6 -> MatchDelimited(remaining, <<BQ>>, BQ)
    [] p = 7 -> MatchLink(remaining)

\* IsSpecialAt, were a single tilde a special character
IsSpecialAtAnyTilde(s, k) == s[k] \in {"*", "_", BQ, "[", "]", "~"}

\* remaining.search(/~~|\*\*|\*|__|_|BQ|\[|\]/)
IsSpecialAt(s, k) ==
  \/ s[k] \in {"*", "_", BQ, "[", "]"}
  \/ s[k] = "~" /\ k < Len(s) /\ s[k + 1] = "~"

NextSpecial(s) ==
  IF \E k \in 1..Len(s) : IsSpecialAt(s, k)
    THEN (CHOOSE k \in 1..Len(s) :
            IsSpecialAt(s, k) /\ \A m \in 1..(k - 1) : ~IsSpecialAt(s, m)) - 1
    ELSE -1

TextNode(text) == [type |-> "text", text |-> text]

MarkOf(p, match) ==
  IF PatternMarks[p] = "link"
    THEN [type |-> "link", attrs |-> [href |-> match.href]]
    ELSE [type |-> PatternMarks[p]]

\* MarkedNode, were the inner text scanned again and its mark added
MarkedNodeComposed(p, match) ==
  [type |-> "text", text |-> match.text,
   marks |-> <<MarkOf(p, match)>>
               \o (IF \E q \in 1..7 : PatternMatch(q, match.text).matched
                     THEN <<[type |-> "em"]>> ELSE <<>>)]

MarkedNode(p, match) ==
  [type |-> "text", text |-> match.text, marks |-> <<MarkOf(p, match)>>]

\* The first pattern of the array that matches, or 0 when none does.
FirstPattern(remaining) ==
  IF \E p \in 1..7 : PatternMatch(p, remaining).matched
    THEN CHOOSE p \in 1..7 :
           /\ PatternMatch(p, remaining).matched
           /\ \A q \in 1..(p - 1) : ~PatternMatch(q, remaining).matched
    ELSE 0

\* if (match): push the marked node, drop the matched span
MatchedStep(remaining, p, match) ==
  [nodes |-> <<MarkedNode(p, match)>>,
   remaining |-> Slice(remaining, match.length)]

\* UnmatchedStep, were a special character at offset 0 skipped
UnmatchedStepSkips(remaining, nextSpecial) ==
  IF nextSpecial = -1
    THEN [nodes |-> <<TextNode(remaining)>>, remaining |-> <<>>]
  ELSE IF nextSpecial = 0
    THEN [nodes |-> <<>>, remaining |-> Slice(remaining, 1)]
    ELSE [nodes |-> <<TextNode(SliceTo(remaining, 0, nextSpecial))>>,
          remaining |-> Slice(remaining, nextSpecial)]

\* if (!match): push the text up to the next special character, or the
\* special character at offset 0, or all that remains
UnmatchedStep(remaining, nextSpecial) ==
  IF nextSpecial = -1
    THEN [nodes |-> <<TextNode(remaining)>>, remaining |-> <<>>]
  ELSE IF nextSpecial = 0
    THEN [nodes |-> <<TextNode(<<remaining[1]>>)>>,
          remaining |-> Slice(remaining, 1)]
    ELSE [nodes |-> <<TextNode(SliceTo(remaining, 0, nextSpecial))>>,
          remaining |-> Slice(remaining, nextSpecial)]

PatternStep(remaining, p) ==
  IF p # 0
    THEN MatchedStep(remaining, p, PatternMatch(p, remaining))
    ELSE UnmatchedStep(remaining, NextSpecial(remaining))

\* One iteration of the while loop on a non-empty remaining text: the
\* nodes it pushes and the text left for the next iteration.
InlineStep(remaining) == PatternStep(remaining, FirstPattern(remaining))

RECURSIVE parseMarkdownInline(_)
parseMarkdownInline(text) ==
  IF Len(text) > 0
    THEN InlineStep(text).nodes
           \o parseMarkdownInline(InlineStep(text).remaining)
    ELSE <<>>

EmptyText == [type |-> "text", text |-> <<>>]

\* buildParagraph without the placeholder for an empty result
buildParagraphNoPlaceholder(text) ==
  [type |-> "paragraph", content |-> parseMarkdownInline(text)]

buildParagraph(text) ==
  LET content == parseMarkdownInline(text) IN
    [type |-> "paragraph",
     content |-> IF Len(content) > 0 THEN content ELSE <<EmptyText>>]

(***************************************************************************)
(* Line tests of parseMarkdownBlocks and the table helpers.                *)
(***************************************************************************)
NoLineTerminator(s) == \A k \in 1..Len(s) : s[k] \notin LineTerminators

getLineIndent(line) ==
  LET n == LeadingCount(line, WhiteSpace)
      tabs == Cardinality({k \in 1..n : line[k] = "\t"})
  IN n + tabs

\* trimmed.match(/^BQBQBQ([\w-]+)?\s*$/)
codeFenceStart(trimmed) ==
  LET rest == Slice(trimmed, 3)
      n == LeadingCount(rest, WordChars \cup {"-"})
  IN IF StartsWith(trimmed, <<BQ, BQ, BQ>>) /\ All(Slice(rest, n), WhiteSpace)
       THEN IF n > 0
              THEN [matched |-> TRUE, language |-> SliceTo(rest, 0, n)]
              ELSE [matched |-> TRUE]
       ELSE NoMatch

\* IsCodeFenceEnd, were a fence with a language word to close a block too
IsCodeFenceEndOrStart(line) == codeFenceStart(Trim(line)).matched

\* /^\s*BQBQBQ\s*$/.test(line)
IsCodeFenceEnd(line) ==
  LET t == TrimStart(line) IN
    StartsWith(t, <<BQ, BQ, BQ>>) /\ All(Slice(t, 3), WhiteSpace)

\* /^\s*>\s?/.test(line)
IsQuoteLine(line) == StartsWith(TrimStart(line), <<">">>)

\* StripQuote, were the quote marker left on the line
StripQuoteKeepsMarker(line) == TrimStart(line)

\* line.replace(/^\s*>\s?/, "")
StripQuote(line) ==
  IF IsQuoteLine(line)
    THEN LET t == Slice(TrimStart(line), 1) IN
           IF t # <<>> /\ Head(t) \in WhiteSpace THEN Tail(t) ELSE t
    ELSE line

\* trimmed.match(/^(#{1,6})\s+(.*)$/)
headingMatch(trimmed) ==
  LET n == LeadingCount(trimmed, {"#"})
      rest == Slice(trimmed, n)
      w == LeadingCount(rest, WhiteSpace)
  IN IF n >= 1 /\ n <= 6 /\ w >= 1 /\ NoLineTerminator(Slice(rest, w))
       THEN [matched |-> TRUE, level |-> n, text |-> Slice(rest, w)]
       ELSE NoMatch

\* line.match(/^(\s*)[-*]\s+(.*)$/)
bulletMatch(line) ==
  LET n == LeadingCount(line, WhiteSpace)
      rest == Slice(line, n + 1)
      w == LeadingCount(rest, WhiteSpace)
  IN IF /\ Len(line) > n
        /\ line[n + 1] \in {"-", "*"}
        /\ w >= 1
        /\ NoLineTerminator(Slice(rest, w))
       THEN [matched |-> TRUE,
             space |-> SliceTo(line, 0, n),
             text |-> Slice(rest, w)]
       ELSE NoMatch

\* line.match(/^(\s*)(\d+)\.\s+(.*)$/)
orderedMatch(line) ==
  LET n == LeadingCount(line, WhiteSpace)
      d == LeadingCount(Slice(line, n), Digits)
      rest == Slice(line, n + d + 1)
      w == LeadingCount(rest, WhiteSpace)
  IN IF /\ d >= 1
        /\ Len(line) > n + d
        /\ line[n + d + 1] = "."
        /\ w >= 1
        /\ NoLineTerminator(Slice(rest, w))
       THEN [matched |-> TRUE,
             space |-> SliceTo(line, 0, n),
             digits |-> SliceTo(line, n, n + d),
             text |-> Slice(rest, w)]
       ELSE NoMatch

splitTableRow(line) ==
  LET t == Trim(line)
      a == IF StartsWith(t, <<"|">>) THEN Tail(t) ELSE t
      trimmed == IF a # <<>> /\ a[Len(a)] = "|"
                   THEN SubSeq(a, 1, Len(a) - 1) ELSE a
      cells == Split(trimmed, "|")
  IN [k \in 1..Len(cells) |-> Trim(cells[k])]

\* /^:?-{3,}:?$/.test(cell)
IsSeparatorCell(cell) ==
  LET a == IF StartsWith(cell, <<":">>) THEN Tail(cell) ELSE cell
      n == LeadingCount(a, {"-"})
      rest == Slice(a, n)
  IN n >= 3 /\ rest \in {<<>>, <<":">>}

isTableSeparator(line) ==
  LET cells == splitTableRow(line) IN
    Len(cells) > 0 /\ \A k \in 1..Len(cells) : IsSeparatorCell(cells[k])

\* toParagraph without the placeholder for an empty cell
toParagraphNoPlaceholder(value) ==
  [type |-> "paragraph", content |-> parseMarkdownInline(value)]

\* toParagraph of buildTableNode
toParagraph(value) ==
  LET inline == parseMarkdownInline(value) IN
    [type |-> "paragraph",
     content |-> IF Len(inline) > 0 THEN inline ELSE <<EmptyText>>]

TableRow(line, cellType) ==
  LET cells == splitTableRow(line) IN
    [type |-> "tableRow",
     content |-> [k \in 1..Len(cells) |->
                    [type |-> cellType,
                     content |-> <<toParagraph(cells[k])>>]]]

\* buildTableNode, were the body rows cut to the width of the header row
buildTableNodeHeaderWidth(headerLine, bodyLines) ==
  LET width == Len(splitTableRow(headerLine))
      cut(row) == [row EXCEPT !.content =
                     SubSeq(@, 1, IF Len(@) < width THEN Len(@) ELSE width)]
  IN [type |-> "table",
      attrs |-> [isNumberColumnEnabled |-> FALSE, layout |-> "default"],
      content |-> <<TableRow(headerLine, "tableHeader")>>
                    \o [k \in 1..Len(bodyLines) |->
                          cut(TableRow(bodyLines[k], "tableCell"))]]

buildTableNode(headerLine, bodyLines) ==
  [type |-> "table",
   attrs |-> [isNumberColumnEnabled |-> FALSE, layout |-> "default"],
   content |-> <<TableRow(headerLine, "tableHeader")>>
                 \o [k \in 1..Len(bodyLines) |->
                       TableRow(bodyLines[k], "tableCell")]]

(***************************************************************************)
(* State of one run of createTextADF.  text, lines, i, blocks,             *)
(* paragraphLines and listStack are the parameter and locals of the        *)
(* running call of parseMarkdownBlocks; callStack holds the suspended      *)
(* calls that wait for a blockquote's content.                             *)
(***************************************************************************)
VARIABLES
  text,            \* parameter of the running call
  lines,           \* text.replace(/\r\n/g, "\n").split("\n")
  i,               \* loop index (0-based, as in the source)
  blocks,          \* blocks pushed so far; lists are references into heap
  paragraphLines,  \* pending paragraph buffer
  listStack,       \* entries [type, indent, node]; node is a heap id
  heap,            \* list nodes and list items created by the running call
  callStack,       \* suspended callers: [text, lines, i, cursor, blocks, heap]
  pc,              \* "loop", "done" (document returned), "error" (thrown)
  result,          \* the document returned by createTextADF
  inlineCalls      \* texts handed to parseMarkdownInline by the last step

vars == <<text, lines, i, blocks, paragraphLines, listStack, heap,
          callStack, pc, result, inlineCalls>>

\* State of JiraMcpHttpServer and of the request Express is working on.
VARIABLES
  authTokens,              \* this.authTokens
  sessions,                \* keys of this.sessions (SSE transports)
  streamableHttpSessions,  \* keys of this.streamableHttpSessions
  request,                 \* the request in hand
  stage,                   \* where the request is: idle, json, route, done
  status,                  \* status of the response, 0 while none is sent
  reached                  \* the existing transport the request was handed to

httpVars == <<authTokens, sessions, streamableHttpSessions, request, stage,
              status, reached>>

Ref(id) == [type |-> "ref", id |-> id]

SplitLines(t) == Split(NormalizeNewlines(t), "\n")

\* lines[k], 0-based
Line(k) == lines[k + 1]

rawLine == Line(i)
line == TrimEnd(rawLine)
trimmed == Trim(line)

(***************************************************************************)
(* Closures of parseMarkdownBlocks.  Each takes the state it works on and  *)
(* returns the state it leaves.                                            *)
(***************************************************************************)
\* FlushContent, were the buffered lines joined without a space
FlushContentNoSpace(pLines) == Trim(Join(pLines, <<>>))

\* flushParagraph: the blocks after the call (paragraphLines becomes empty).
FlushContent(pLines) == Trim(Join(pLines, <<" ">>))

flushParagraph(blks, pLines) ==
  IF Len(pLines) = 0 THEN blks
  ELSE IF Len(FlushContent(pLines)) > 0
    THEN Append(blks, buildParagraph(FlushContent(pLines)))
    ELSE blks

\* the texts flushParagraph hands to the tokenizer
FlushCalls(pLines) ==
  IF Len(pLines) > 0 /\ Len(FlushContent(pLines)) > 0
    THEN {FlushContent(pLines)} ELSE {}

\* getLastListItem: the reference held last in the list's content, or
\* <<>> for undefined.
getLastListItem(hp, listId) ==
  LET content == hp[listId].content IN
    IF Len(content) > 0 THEN <<content[Len(content)].id>> ELSE <<>>

\* start is <<>> (undefined) or <<n>>
createListNode(type, start) ==
  IF type = "bullet"
    THEN [type |-> "bulletList", content |-> <<>>]
    ELSE IF start # <<>> /\ start[1] # 0
      THEN [type |-> "orderedList", content |-> <<>>,
            attrs |-> [order |-> start[1]]]
      ELSE [type |-> "orderedList", content |-> <<>>]

\* PopDeeper, were one entry popped at most
PopDeeperOnce(stack, indent) ==
  IF Len(stack) > 0 /\ stack[Len(stack)].indent > indent
    THEN SubSeq(stack, 1, Len(stack) - 1)
    ELSE stack

\* PopDeeper, were the entries of the requested indent popped too
RECURSIVE PopDeeperOrEqual(_, _)
PopDeeperOrEqual(stack, indent) ==
  IF Len(stack) > 0 /\ stack[Len(stack)].indent >= indent
    THEN PopDeeperOrEqual(SubSeq(stack, 1, Len(stack) - 1), indent)
    ELSE stack

\* the while loop that pops the entries deeper than indent
RECURSIVE PopDeeper(_, _)
PopDeeper(stack, indent) ==
  IF Len(stack) > 0 /\ stack[Len(stack)].indent > indent
    THEN PopDeeper(SubSeq(stack, 1, Len(stack) - 1), indent)
    ELSE stack

\* PushContent, were the child put first
PushContentFirst(hp, id, child) ==
  [hp EXCEPT ![id].content = <<child>> \o @]

PushContent(hp, id, child) ==
  [hp EXCEPT ![id].content = Append(@, child)]

PlaceholderItem == [type |-> "listItem", content |-> <<buildParagraph(<<>>)>>]

\* the last item of a list that has one
LastItem(hp, listId) == hp[listId].content[Len(hp[listId].content)].id

\* if (!item) { item = placeholder; list.content.push(item) }
WithLastItem(hp, listId) ==
  IF getLastListItem(hp, listId) = <<>>
    THEN PushContent(Append(hp, PlaceholderItem), listId, Ref(Len(hp) + 1))
    ELSE hp

Entry(type, indent, node) == [type |-> type, indent |-> indent, node |-> node]

\* BelowNew, were the entry of the same indent left on the stack
BelowNewKeepsEntry(popped, indent) == popped

\* the stack below the new entry: an entry of the same indent and another
\* type is popped; its top entry, if any, is the parent
BelowNew(popped, indent) ==
  IF Len(popped) > 0 /\ popped[Len(popped)].indent = indent
    THEN SubSeq(popped, 1, Len(popped) - 1)
    ELSE popped

\* if (!parent) blocks.push(node)
PushTopLevel(below, blks, hp, type, indent, start) ==
  [listStack |-> Append(below, Entry(type, indent, Len(hp) + 1)),
   blocks |-> Append(blks, Ref(Len(hp) + 1)),
   heap |-> Append(hp, createListNode(type, start)),
   entry |-> Entry(type, indent, Len(hp) + 1)]

\* PushNested, were the list put before the parent item's paragraph
PushNestedFirst(below, blks, hp, type, indent, node) ==
  [listStack |-> Append(below, Entry(type, indent, node)),
   blocks |-> blks,
   heap |-> PushContentFirst(hp, LastItem(hp, below[Len(below)].node),
                             Ref(node)),
   entry |-> Entry(type, indent, node)]

\* else parentItem.content.push(node); hp holds the new list as node and
\* the parent list holds an item
PushNested(below, blks, hp, type, indent, node) ==
  [listStack |-> Append(below, Entry(type, indent, node)),
   blocks |-> blks,
   heap |-> PushContent(hp, LastItem(hp, below[Len(below)].node), Ref(node)),
   entry |-> Entry(type, indent, node)]

\* NewList, were a new list always pushed as a top-level block
NewListTopLevel(below, blks, hp, type, indent, start) ==
  PushTopLevel(below, blks, hp, type, indent, start)

\* the part of ensureListContext that creates a list
NewList(below, blks, hp, type, indent, start) ==
  IF Len(below) = 0
    THEN PushTopLevel(below, blks, hp, type, indent, start)
    ELSE PushNested(below, blks,
                    WithLastItem(Append(hp, createListNode(type, start)),
                                 below[Len(below)].node),
                    type, indent, Len(hp) + 1)

\* ensureListContext after its while loop
EnsureOnPopped(popped, blks, hp, type, indent, start) ==
  IF /\ Len(popped) > 0
     /\ popped[Len(popped)].indent = indent
     /\ popped[Len(popped)].type = type
    THEN [listStack |-> popped, blocks |-> blks, heap |-> hp,
          entry |-> popped[Len(popped)]]
    ELSE NewList(BelowNew(popped, indent), blks, hp, type, indent, start)

\* ensureListContext(type, indent, start) on the state [listStack, blocks,
\* heap]; returns that state and the entry.
ensureListContext(stack, blks, hp, type, indent, start) ==
  EnsureOnPopped(PopDeeper(stack, indent), blks, hp, type, indent, start)

\* PushListItem, were the item put first in the list
PushListItemFirst(hp, listId, t) ==
  PushContentFirst(Append(hp, [type |-> "listItem",
                               content |-> <<buildParagraph(t)>>]),
                   listId, Ref(Len(hp) + 1))

\* PushListItem, were the item's paragraph built from the empty text
PushListItemNoText(hp, listId, t) ==
  PushContent(Append(hp, PlaceholderItem), listId, Ref(Len(hp) + 1))

\* entry.node.content.push({type: "listItem", content: [buildParagraph(t)]})
PushListItem(hp, listId, t) ==
  PushContent(Append(hp, [type |-> "listItem",
                          content |-> <<buildParagraph(t)>>]),
              listId, Ref(Len(hp) + 1))

\* if (!paragraph || paragraph.type !== "paragraph") item.content.unshift(..)
WithParagraph(hp, item) ==
  IF Len(hp[item].content) > 0 /\ hp[item].content[1].type = "paragraph"
    THEN hp
    ELSE [hp EXCEPT ![item].content = <<buildParagraph(<<>>)>> \o @]

hasPlaceholder(paragraph) ==
  /\ Len(paragraph.content) = 1
  /\ paragraph.content[1].type = "text"
  /\ paragraph.content[1].text = <<>>

\* AppendInline, were no hardBreak put before the appended nodes
AppendInlineNoBreak(hp, item, inline) ==
  IF Len(inline) = 0 THEN hp
  ELSE IF hasPlaceholder(hp[item].content[1])
    THEN [hp EXCEPT ![item].content[1].content = inline]
    ELSE [hp EXCEPT ![item].content[1].content = @ \o inline]

\* the end of appendContinuationToListItem: inline replaces the
\* placeholder or follows a hardBreak
AppendInline(hp, item, inline) ==
  IF Len(inline) = 0 THEN hp
  ELSE IF hasPlaceholder(hp[item].content[1])
    THEN [hp EXCEPT ![item].content[1].content = inline]
    ELSE [hp EXCEPT ![item].content[1].content =
                      @ \o <<[type |-> "hardBreak"]>> \o inline]

ContinueItem(hp, item, ln) ==
  AppendInline(WithParagraph(hp, item), item, parseMarkdownInline(Trim(ln)))

ContinueList(hp, listId, ln) == ContinueItem(hp, LastItem(hp, listId), ln)

\* appendContinuationToListItem(entry, line): the heap after the call
appendContinuationToListItem(hp, entry, ln) ==
  ContinueList(WithLastItem(hp, entry.node), entry.node, ln)

\* The value of a block once the call returns: references replaced by
\* the nodes they refer to.
RECURSIVE Resolve(_, _)
Resolve(hp, node) ==
  IF node.type = "ref"
    THEN LET n == hp[node.id] IN
           [n EXCEPT !.content =
              [k \in 1..Len(n.content) |-> Resolve(hp, n.content[k])]]
    ELSE node

ResolveAll(hp, blks) == [k \in 1..Len(blks) |-> Resolve(hp, blks[k])]

(***************************************************************************)
(* Inputs: every text of fewer than MaxLines lines drawn from               *)
(* CandidateLines, and every text of MaxLines lines drawn from CoreLines,  *)
(* joined by "\n" (no line at all is the empty string).  CoreLines are the *)
(* candidates but the fence with a language, the row 1||3 and the empty    *)
(* quoted line.  The candidates:                                           *)
(*   a whitespace-only line; a plain line ending in a carriage return;     *)
(*   a fence without a language; a fence with the language js;             *)
(*   a|__b__ (a line with a cell separator);  ---|---  (a separator row);  *)
(*   1||3 (a row of three cells, the second empty);                        *)
(*   > (an empty quoted line);  > - b (a quoted bullet item);              *)
(*   # **_a_** (a heading);  - *a* (a bullet item);                        *)
(*   - ~~b~~ indented by two (a nested bullet item);                       *)
(*   0. BQaBQ (an ordered item numbered 0, with inline code);              *)
(*   5. _b_ indented by two (a nested ordered item numbered 5);            *)
(*   [c](d)*e indented by two (a continuation or plain line, with an       *)
(*   unmatched delimiter).                                                 *)
(***************************************************************************)
CoreLines ==
  {<<" ", "\t">>,
   <<"a", "\r">>,
   <<BQ, BQ, BQ>>,
   <<"a", "|", "_", "_", "b", "_", "_">>,
   <<"-", "-", "-", "|", "-", "-", "-">>,
   <<">", " ", "-", " ", "b">>,
   <<"#", " ", "*", "*", "_", "a", "_", "*", "*">>,
   <<"-", " ", "*", "a", "*">>,
   <<" ", " ", "-", " ", "~", "~", "b", "~", "~">>,
   <<"0", ".", " ", BQ, "a", BQ>>,
   <<" ", " ", "5", ".", " ", "_", "b", "_">>,
   <<" ", " ", "[", "c", "]", "(", "d", ")", "*", "e">>}

CandidateLines ==
  CoreLines
    \cup {<<BQ, BQ, BQ, "j", "s">>,
          <<"1", "|", "|", "3">>,
          <<">">>}

\* Further texts, line by line, for cases no text of candidate lines
\* shows:
\*   > a  then  >(tab)b : a quote marker followed by a tab;
\*   ~a : a plain line with a single tilde;
\*   ~~a* : a line with delimiters that open no complete pattern;
\*   a bullet item, a nested bullet item, a blank line and a bullet item
\*   at the nested indent;
\*   bullet items at the indents 0, 2, 4 and 1;
\*   a quote, a heading, a bullet item and an ordered item with a cell
\*   separator, each followed by a separator row;
\*   a quoted heading; a bullet item followed by an indented heading, by
\*   an indented quote and by an indented fence;
\*   a list, then a closed fence or a table, then an indented item;
\*   **a*, *a** and __a_ as one paragraph;
\*   texts of MaxLines lines with a candidate that is no core line.
ExtraLineSeqs ==
  {<<(<<">", " ", "a">>), (<<">", "\t", "b">>)>>,
   <<(<<"~", "a">>)>>,
   <<(<<"~", "~", "a", "*">>)>>,
   <<(<<"*", "*", "a", "*">>), (<<"*", "a", "*", "*">>),
     (<<"_", "_", "a", "_">>)>>,
   <<(<<"-", " ", "*", "a", "*">>),
     (<<" ", " ", "-", " ", "~", "~", "b", "~", "~">>),
     (<<" ", "\t">>),
     (<<" ", " ", "-", " ", "~", "~", "b", "~", "~">>)>>,
   <<(<<"-", " ", "*", "a", "*">>),
     (<<" ", " ", "-", " ", "~", "~", "b", "~", "~">>),
     (<<" ", " ", " ", " ", "-", " ", "b">>),
     (<<" ", "-", " ", "b">>)>>,
   <<(<<">", " ", "a", "|", "b">>), (<<"-", "-", "-", "|", "-", "-", "-">>)>>,
   <<(<<"#", " ", "a", "|", "b">>), (<<"-", "-", "-", "|", "-", "-", "-">>)>>,
   <<(<<"-", " ", "a", "|", "b">>), (<<"-", "-", "-", "|", "-", "-", "-">>)>>,
   <<(<<"1", ".", " ", "a", "|", "b">>),
     (<<"-", "-", "-", "|", "-", "-", "-">>)>>,
   <<(<<">", " ", "#", " ", "a">>)>>,
   <<(<<"-", " ", "*", "a", "*">>), (<<" ", " ", "#", " ", "a">>)>>,
   <<(<<"-", " ", "*", "a", "*">>), (<<" ", " ", ">", " ", "a">>)>>,
   <<(<<"-", " ", "*", "a", "*">>), (<<" ", " ", BQ, BQ, BQ>>)>>,
   <<(<<"-", " ", "*", "a", "*">>), (<<BQ, BQ, BQ>>), (<<BQ, BQ, BQ>>),
     (<<" ", " ", "-", " ", "~", "~", "b", "~", "~">>)>>,
   <<(<<"-", " ", "*", "a", "*">>), (<<"a", "|", "b">>),
     (<<"-", "-", "-", "|", "-", "-", "-">>),
     (<<" ", " ", "5", ".", " ", "_", "b", "_">>)>>,
   <<(<<"-", " ", "*", "a", "*">>),
     (<<" ", " ", "[", "c", "]", "(", "d", ")", "*", "e">>), (<<">">>)>>,
   <<(<<"a", "|", "_", "_", "b", "_", "_">>),
     (<<"-", "-", "-", "|", "-", "-", "-">>), (<<"1", "|", "|", "3">>)>>,
   <<(<<BQ, BQ, BQ, "j", "s">>), (<<"-", " ", "*", "a", "*">>),
     (<<BQ, BQ, BQ>>)>>,
   <<(<<"a", "\r">>), (<<"1", "|", "|", "3">>), (<<"a", "\r">>)>>}

Inputs ==
  {Join(ls, <<"\n">>) :
     ls \in UNION {[1..n -> CandidateLines] : n \in 0..(MaxLines - 1)}
               \cup [1..MaxLines -> CoreLines]
               \cup ExtraLineSeqs}

\* no request in hand
NoRequest ==
  [method |-> "GET", path |-> "/", authorization |-> <<>>,
   sessionId |-> <<>>, body |-> "other", jira |-> {}]

Init ==
  /\ text \in Inputs
  /\ lines = SplitLines(text)
  /\ i = 0
  /\ blocks = <<>>
  /\ paragraphLines = <<>>
  /\ listStack = <<>>
  /\ heap = <<>>
  /\ callStack = <<>>
  /\ pc = "loop"
  /\ result = <<>>
  /\ inlineCalls = {}
  /\ authTokens = {}
  /\ sessions = {}
  /\ streamableHttpSessions = {}
  /\ request = NoRequest
  /\ stage = "idle"
  /\ status = 0
  /\ reached = <<>>

(***************************************************************************)
(* The for loop of parseMarkdownBlocks: one action per branch of its body. *)
(***************************************************************************)
InLoop == pc = "loop" /\ i < Len(lines)

\* tableCondition without the test that a next line exists
tableConditionUnguarded ==
  IF ~Includes(trimmed, "|") THEN "false"
  ELSE IF ~(i + 1 < Len(lines)) THEN "throw"
  ELSE IF isTableSeparator(Trim(Line(i + 1))) THEN "true"
  ELSE "false"

\* The condition of the table branch: "true", "false", or "throw" when
\* its evaluation reads a property of undefined.
tableCondition ==
  IF ~(i + 1 < Len(lines)) THEN "false"
  ELSE IF ~Includes(trimmed, "|") THEN "false"
  ELSE IF ~(i + 1 < Len(lines)) THEN "throw"
  ELSE IF isTableSeparator(Trim(Line(i + 1))) THEN "true"
  ELSE "false"

\* Branch, were the blockquote test made before the table test
BranchQuoteBeforeTable ==
  IF Len(trimmed) = 0 THEN "blank"
  ELSE IF codeFenceStart(trimmed).matched THEN "fence"
  ELSE IF IsQuoteLine(line) THEN "quote"
  ELSE IF tableCondition # "false" THEN "table"
  ELSE IF headingMatch(trimmed).matched THEN "heading"
  ELSE IF bulletMatch(line).matched THEN "bullet"
  ELSE IF orderedMatch(line).matched THEN "ordered"
  ELSE IF /\ Len(listStack) > 0
          /\ getLineIndent(line) > listStack[Len(listStack)].indent
    THEN "continuation"
  ELSE "default"

\* The branch of the loop body that handles the current line.
Branch ==
  IF Len(trimmed) = 0 THEN "blank"
  ELSE IF codeFenceStart(trimmed).matched THEN "fence"
  ELSE IF tableCondition # "false" THEN "table"
  ELSE IF IsQuoteLine(line) THEN "quote"
  ELSE IF headingMatch(trimmed).matched THEN "heading"
  ELSE IF bulletMatch(line).matched THEN "bullet"
  ELSE IF orderedMatch(line).matched THEN "ordered"
  ELSE IF /\ Len(listStack) > 0
          /\ getLineIndent(line) > listStack[Len(listStack)].indent
    THEN "continuation"
  ELSE "default"

\* BlankLine, were the open lists left open
BlankLineKeepsLists ==
  /\ InLoop /\ Branch = "blank"
  /\ blocks' = flushParagraph(blocks, paragraphLines)
  /\ paragraphLines' = <<>>
  /\ i' = i + 1
  /\ inlineCalls' = FlushCalls(paragraphLines)
  /\ UNCHANGED <<text, lines, listStack, heap, callStack, pc, result>>
  /\ UNCHANGED httpVars

BlankLine ==
  /\ InLoop /\ Branch = "blank"
  /\ blocks' = flushParagraph(blocks, paragraphLines)
  /\ paragraphLines' = <<>>
  /\ listStack' = <<>>
  /\ i' = i + 1
  /\ inlineCalls' = FlushCalls(paragraphLines)
  /\ UNCHANGED <<text, lines, heap, callStack, pc, result>>
  /\ UNCHANGED httpVars

\* while (i < lines.length && !fenceEnd.test(lines[i])) i += 1
RECURSIVE ScanCode(_)
ScanCode(k) ==
  IF k < Len(lines) /\ ~IsCodeFenceEnd(Line(k)) THEN ScanCode(k + 1) ELSE k

FencedCode ==
  /\ InLoop /\ Branch = "fence"
  /\ LET fence == codeFenceStart(trimmed)
         close == ScanCode(i + 1)
         codeLines == [k \in 1..(close - (i + 1)) |-> Line(i + k)]
         content == <<TextNode(Join(codeLines, <<"\n">>))>>
         node == IF "language" \in DOMAIN fence
                   THEN [type |-> "codeBlock",
                         attrs |-> [language |-> fence.language],
                         content |-> content]
                   ELSE [type |-> "codeBlock", content |-> content]
     IN /\ blocks' = Append(flushParagraph(blocks, paragraphLines), node)
        /\ i' = close + 1
  /\ paragraphLines' = <<>>
  /\ listStack' = <<>>
  /\ inlineCalls' = FlushCalls(paragraphLines)
  /\ UNCHANGED <<text, lines, heap, callStack, pc, result>>
  /\ UNCHANGED httpVars

\* ScanRows, were a row without "|" not to end the run
RECURSIVE ScanRowsToBlank(_)
ScanRowsToBlank(cursor) ==
  IF cursor < Len(lines) /\ Len(Trim(Line(cursor))) # 0
    THEN ScanRowsToBlank(cursor + 1)
    ELSE cursor

\* while (cursor < lines.length) { row empty or without "|": break }
RECURSIVE ScanRows(_)
ScanRows(cursor) ==
  IF cursor < Len(lines)
       /\ Len(Trim(Line(cursor))) # 0
       /\ Includes(Trim(Line(cursor)), "|")
    THEN ScanRows(cursor + 1)
    ELSE cursor

CellCalls(rows) ==
  UNION {{splitTableRow(rows[r])[k] : k \in 1..Len(splitTableRow(rows[r]))} :
           r \in 1..Len(rows)}

Table ==
  /\ InLoop /\ Branch = "table"
  /\ IF tableCondition = "throw"
       THEN /\ pc' = "error"
            /\ UNCHANGED <<blocks, paragraphLines, listStack, i, inlineCalls>>
       ELSE LET cursor == ScanRows(i + 2)
                bodyLines == [k \in 1..(cursor - (i + 2)) |->
                                Trim(Line(i + 1 + k))]
            IN /\ blocks' = Append(flushParagraph(blocks, paragraphLines),
                                   buildTableNode(trimmed, bodyLines))
               /\ i' = (cursor - 1) + 1
               /\ inlineCalls' = FlushCalls(paragraphLines)
                                   \cup CellCalls(<<trimmed>> \o bodyLines)
               /\ paragraphLines' = <<>>
               /\ listStack' = <<>>
               /\ pc' = pc
  /\ UNCHANGED <<text, lines, heap, callStack, result>>
  /\ UNCHANGED httpVars

\* ScanQuote, were the capture to stop after the first quoted line
ScanQuoteOneLine(cursor) == cursor + 1

\* while (cursor < lines.length && quote.test(lines[cursor])) cursor += 1
RECURSIVE ScanQuote(_)
ScanQuote(cursor) ==
  IF cursor < Len(lines) /\ IsQuoteLine(Line(cursor))
    THEN ScanQuote(cursor + 1)
    ELSE cursor

\* The blockquote branch up to its recursive call: the caller is suspended
\* and the callee starts on the stripped lines.
Blockquote ==
  /\ InLoop /\ Branch = "quote"
  /\ LET cursor == ScanQuote(i)
         quoteLines == [k \in 1..(cursor - i) |-> StripQuote(Line(i + k - 1))]
     IN /\ callStack' = Append(callStack,
                               [text |-> text, lines |-> lines, i |-> i,
                                cursor |-> cursor,
                                blocks |-> flushParagraph(blocks,
                                                          paragraphLines),
                                heap |-> heap])
        /\ text' = Join(quoteLines, <<"\n">>)
        /\ lines' = SplitLines(Join(quoteLines, <<"\n">>))
  /\ i' = 0
  /\ blocks' = <<>>
  /\ paragraphLines' = <<>>
  /\ listStack' = <<>>
  /\ heap' = <<>>
  /\ inlineCalls' = FlushCalls(paragraphLines)
  /\ UNCHANGED <<pc, result>>
  /\ UNCHANGED httpVars

\* Heading, were the open lists left open
HeadingKeepsLists ==
  /\ InLoop /\ Branch = "heading"
  /\ LET m == headingMatch(trimmed) IN
       /\ blocks' = Append(flushParagraph(blocks, paragraphLines),
                           [type |-> "heading",
                            attrs |-> [level |-> m.level],
                            content |-> parseMarkdownInline(m.text)])
       /\ inlineCalls' = FlushCalls(paragraphLines) \cup {m.text}
  /\ paragraphLines' = <<>>
  /\ i' = i + 1
  /\ UNCHANGED <<text, lines, listStack, heap, callStack, pc, result>>
  /\ UNCHANGED httpVars

Heading ==
  /\ InLoop /\ Branch = "heading"
  /\ LET m == headingMatch(trimmed) IN
       /\ blocks' = Append(flushParagraph(blocks, paragraphLines),
                           [type |-> "heading",
                            attrs |-> [level |-> m.level],
                            content |-> parseMarkdownInline(m.text)])
       /\ inlineCalls' = FlushCalls(paragraphLines) \cup {m.text}
  /\ paragraphLines' = <<>>
  /\ listStack' = <<>>
  /\ i' = i + 1
  /\ UNCHANGED <<text, lines, heap, callStack, pc, result>>
  /\ UNCHANGED httpVars

\* the end of an item branch: the item is pushed onto the entry's list
ItemPushed(ctx, itemText) ==
  /\ listStack' = ctx.listStack
  /\ blocks' = ctx.blocks
  /\ heap' = PushListItem(ctx.heap, ctx.entry.node, itemText)
  /\ inlineCalls' = FlushCalls(paragraphLines) \cup {itemText}

BulletItem ==
  /\ InLoop /\ Branch = "bullet"
  /\ ItemPushed(ensureListContext(listStack,
                                  flushParagraph(blocks, paragraphLines),
                                  heap, "bullet",
                                  getLineIndent(bulletMatch(line).space),
                                  <<>>),
                bulletMatch(line).text)
  /\ paragraphLines' = <<>>
  /\ i' = i + 1
  /\ UNCHANGED <<text, lines, callStack, pc, result>>
  /\ UNCHANGED httpVars

OrderedItem ==
  /\ InLoop /\ Branch = "ordered"
  /\ ItemPushed(ensureListContext(listStack,
                                  flushParagraph(blocks, paragraphLines),
                                  heap, "ordered",
                                  getLineIndent(orderedMatch(line).space),
                                  <<Number(orderedMatch(line).digits)>>),
                orderedMatch(line).text)
  /\ paragraphLines' = <<>>
  /\ i' = i + 1
  /\ UNCHANGED <<text, lines, callStack, pc, result>>
  /\ UNCHANGED httpVars

ListContinuation ==
  /\ InLoop /\ Branch = "continuation"
  /\ heap' = appendContinuationToListItem(heap, listStack[Len(listStack)],
                                          line)
  /\ inlineCalls' = {Trim(line)}
  /\ i' = i + 1
  /\ UNCHANGED <<text, lines, blocks, paragraphLines, listStack, callStack,
                 pc, result>>
  /\ UNCHANGED httpVars

\* DefaultLine, were the open lists left open
DefaultLineKeepsLists ==
  /\ InLoop /\ Branch = "default"
  /\ paragraphLines' = Append(paragraphLines, trimmed)
  /\ inlineCalls' = {}
  /\ i' = i + 1
  /\ UNCHANGED <<text, lines, blocks, listStack, heap, callStack, pc, result>>
  /\ UNCHANGED httpVars

\* DefaultLine, were only the innermost list closed
DefaultLineClosesInnermost ==
  /\ InLoop /\ Branch = "default"
  /\ listStack' = SubSeq(listStack, 1, Len(listStack) - 1)
  /\ paragraphLines' = Append(paragraphLines, trimmed)
  /\ inlineCalls' = {}
  /\ i' = i + 1
  /\ UNCHANGED <<text, lines, blocks, heap, callStack, pc, result>>
  /\ UNCHANGED httpVars

DefaultLine ==
  /\ InLoop /\ Branch = "default"
  /\ listStack' = <<>>
  /\ paragraphLines' = Append(paragraphLines, trimmed)
  /\ inlineCalls' = {}
  /\ i' = i + 1
  /\ UNCHANGED <<text, lines, blocks, heap, callStack, pc, result>>
  /\ UNCHANGED httpVars

(***************************************************************************)
(* After the loop: the final flushes, the empty-result fallback and the    *)
(* return, either to the blockquote branch of the caller or to             *)
(* createTextADF.                                                          *)
(***************************************************************************)
\* ReturnOf without the fallback for an empty result
ReturnOfWithoutFallback(hp, flushed) == ResolveAll(hp, flushed)

\* if (blocks.length === 0) return [buildParagraph("")]; return blocks
ReturnOf(hp, flushed) ==
  IF Len(flushed) = 0 THEN <<buildParagraph(<<>>)>>
  ELSE ResolveAll(hp, flushed)

ReturnCallsOf(flushed) == IF Len(flushed) = 0 THEN {<<>>} ELSE {}

Returned == ReturnOf(heap, flushParagraph(blocks, paragraphLines))

ReturnCalls ==
  FlushCalls(paragraphLines)
    \cup ReturnCallsOf(flushParagraph(blocks, paragraphLines))

ReturnToBlockquote ==
  /\ pc = "loop" /\ ~(i < Len(lines))
  /\ Len(callStack) > 0
  /\ LET caller == callStack[Len(callStack)] IN
       /\ text' = caller.text
       /\ lines' = caller.lines
       /\ heap' = caller.heap
       /\ blocks' = Append(caller.blocks,
                           [type |-> "blockquote", content |-> Returned])
       /\ i' = (caller.cursor - 1) + 1
  /\ callStack' = SubSeq(callStack, 1, Len(callStack) - 1)
  /\ paragraphLines' = <<>>
  /\ listStack' = <<>>
  /\ inlineCalls' = ReturnCalls
  /\ UNCHANGED <<pc, result>>
  /\ UNCHANGED httpVars

createTextADF ==
  /\ pc = "loop" /\ ~(i < Len(lines))
  /\ Len(callStack) = 0
  /\ result' = [type |-> "doc", version |-> 1, content |-> Returned]
  /\ pc' = "done"
  /\ blocks' = flushParagraph(blocks, paragraphLines)
  /\ paragraphLines' = <<>>
  /\ listStack' = <<>>
  /\ inlineCalls' = ReturnCalls
  /\ UNCHANGED <<text, lines, i, heap, callStack>>
  /\ UNCHANGED httpVars

Next ==
  \/ BlankLine
  \/ FencedCode
  \/ Table
  \/ Blockquote
  \/ Heading
  \/ BulletItem
  \/ OrderedItem
  \/ ListContinuation
  \/ DefaultLine
  \/ ReturnToBlockquote
  \/ createTextADF

Spec == Init /\ [][Next]_vars

(***************************************************************************)
(* JiraMcpHttpServer: the Express application of start(), one request at   *)
(* a time.  A request passes express.json, then the first route whose      *)
(* path and method match it.  Sessions are known by their ids.             *)
(***************************************************************************)
SessionIds == {"s1", "s2"}

Methods == {"GET", "POST", "DELETE"}

Paths == {"/mcp", "/sse", "/messages"}

\* Values of the Authorization header: "Bearer t", "bEARER <tab>t ",
\* "Bearer u", "Bearer ", "Bearert", "Basic t" and the empty value.
AuthorizationValues ==
  {<<"B", "e", "a", "r", "e", "r", " ", "t">>,
   <<"b", "E", "A", "R", "E", "R", " ", "\t", "t", " ">>,
   <<"B", "e", "a", "r", "e", "r", " ", "u">>,
   <<"B", "e", "a", "r", "e", "r", " ">>,
   <<"B", "e", "a", "r", "e", "r", "t">>,
   <<"B", "a", "s", "i", "c", " ", "t">>,
   <<>>}

\* What req.body holds after express.json: an initialize request, other
\* JSON (or no body), or a body the parser rejects.
Bodies == {"initialize", "other", "malformed"}

JiraFields == {"baseUrl", "username", "apiToken"}

\* A header or query item is a sequence: empty when the request has none.
\* jira is the set of credential values the request gives, by header or
\* query, that are not blank.
Requests ==
  [method : Methods,
   path : Paths,
   authorization : {<<>>} \cup {<<h>> : h \in AuthorizationValues},
   sessionId : {<<>>} \cup {<<sid>> : sid \in SessionIds},
   body : Bodies,
   jira : {{}, {"baseUrl", "username"}, JiraFields}]

\* The authTokens argument of the constructor.
TokenLists ==
  {<<(<<"t">>), (<<" ">>)>>,
   <<(<<" ", "u">>), (<<>>)>>}

\* new Set(authTokens.filter((token) => token.trim().length > 0))
ConfiguredTokens(tokens) ==
  {tokens[k] : k \in {n \in 1..Len(tokens) : Len(Trim(tokens[n])) > 0}}

\* the i flag of the pattern, on the letters of "Bearer"
ToLowerCase(c) ==
  CASE c = "B" -> "b"
    [] c = "E" -> "e"
    [] c = "A" -> "a"
    [] c = "R" -> "r"
    [] OTHER -> c

\* the ends k of a whitespace run after "Bearer" that leave one character
\* or more, none a line terminator, up to the end of the header
BearerSplits(header) ==
  {k \in 7..(Len(header) - 1) :
     /\ [n \in 1..6 |-> ToLowerCase(header[n])]
          = <<"b", "e", "a", "r", "e", "r">>
     /\ \A m \in 7..k : header[m] \in WhiteSpace
     /\ \A m \in (k + 1)..Len(header) : header[m] \notin LineTerminators}

\* header.match(/^Bearer\s+(.+)$/i): the whitespace run is greedy
BearerMatch(header) ==
  IF BearerSplits(header) = {} THEN NoMatch
  ELSE [matched |-> TRUE,
        token |-> Slice(header,
                        CHOOSE k \in BearerSplits(header) :
                          \A m \in BearerSplits(header) : m <= k)]

\* the token, or the empty sequence for undefined
getBearerToken(req) ==
  IF req.authorization = <<>> \/ Len(req.authorization[1]) = 0 THEN <<>>
  ELSE IF BearerMatch(req.authorization[1]).matched
    THEN <<Trim(BearerMatch(req.authorization[1]).token)>>
    ELSE <<>>

\* isAuthorized, were any bearer token accepted
isAuthorizedAnyToken(req) ==
  /\ getBearerToken(req) # <<>>
  /\ Len(getBearerToken(req)[1]) > 0

\* !!token && this.authTokens.has(token)
isAuthorized(req) ==
  /\ getBearerToken(req) # <<>>
  /\ Len(getBearerToken(req)[1]) > 0
  /\ getBearerToken(req)[1] \in authTokens

\* null unless the three values are given
readJiraCredentials(req) == JiraFields \subseteq req.jira

\* the session id of the request, from its mcp-session-id header
getSessionIdFromRequest(req) == req.sessionId

\* randomUUID(): an id no session has
FreshIds == SessionIds \ (sessions \cup streamableHttpSessions)

\* the response is sent; the request went to no transport of a session
Answer(code) ==
  /\ status' = code
  /\ reached' = <<>>
  /\ stage' = "done"
  /\ UNCHANGED <<authTokens, sessions, streamableHttpSessions, request>>

HttpInit ==
  /\ \E tokens \in TokenLists : authTokens = ConfiguredTokens(tokens)
  /\ sessions = {}
  /\ streamableHttpSessions = {}
  /\ request = NoRequest
  /\ stage = "idle"
  /\ status = 0
  /\ reached = <<>>
  /\ text = <<>>
  /\ lines = <<>>
  /\ i = 0
  /\ blocks = <<>>
  /\ paragraphLines = <<>>
  /\ listStack = <<>>
  /\ heap = <<>>
  /\ callStack = <<>>
  /\ pc = "done"
  /\ result = <<>>
  /\ inlineCalls = {}

\* app.listen: a request comes in
Arrive ==
  /\ stage = "idle"
  /\ request' \in Requests
  /\ stage' = "json"
  /\ UNCHANGED <<authTokens, sessions, streamableHttpSessions, status,
                 reached>>
  /\ UNCHANGED vars

\* app.use(express.json(...)): a body that does not parse is answered 400
\* and no route sees the request
ExpressJson ==
  /\ stage = "json"
  /\ IF request.body = "malformed"
       THEN Answer(400)
       ELSE /\ stage' = "route"
            /\ UNCHANGED <<authTokens, sessions, streamableHttpSessions,
                           request, status, reached>>
  /\ UNCHANGED vars

\* existingSession.transport.handleRequest(req, res, req.body): a DELETE
\* closes the session, and the transport calls onsessionclosed
HandleExisting(sid) ==
  /\ streamableHttpSessions'
       = IF request.method = "DELETE"
           THEN streamableHttpSessions \ {sid}
           ELSE streamableHttpSessions
  /\ status' = 200
  /\ reached' = <<[map |-> "streamableHttpSessions", id |-> sid]>>
  /\ stage' = "done"
  /\ UNCHANGED <<authTokens, sessions, request>>

\* server.connect(transport), transport.handleRequest(...) on the new
\* transport: onsessioninitialized stores the session, or a throw before
\* it is caught and answered 500
Initialize ==
  \/ \E sid \in FreshIds :
       /\ streamableHttpSessions' = streamableHttpSessions \cup {sid}
       /\ status' = 200
       /\ reached' = <<>>
       /\ stage' = "done"
       /\ UNCHANGED <<authTokens, sessions, request>>
  \/ Answer(500)

\* app.all("/mcp", ...)
Mcp ==
  /\ stage = "route"
  /\ request.path = "/mcp"
  /\ IF ~isAuthorized(request) THEN Answer(401)
     ELSE IF /\ request.sessionId # <<>>
             /\ request.sessionId[1] \in streamableHttpSessions
       THEN HandleExisting(request.sessionId[1])
     ELSE IF ~(request.method = "POST" /\ request.body = "initialize")
       THEN Answer(400)
     ELSE IF ~readJiraCredentials(request) THEN Answer(400)
     ELSE Initialize
  /\ UNCHANGED vars

\* app.get("/sse", ...): the transport has its session id from the start
Sse ==
  /\ stage = "route"
  /\ request.path = "/sse"
  /\ request.method = "GET"
  /\ IF ~isAuthorized(request) THEN Answer(401)
     ELSE IF ~readJiraCredentials(request) THEN Answer(400)
     ELSE \E sessionId \in FreshIds :
            /\ sessions' = sessions \cup {sessionId}
            /\ status' = 200
            /\ reached' = <<>>
            /\ stage' = "done"
            /\ UNCHANGED <<authTokens, streamableHttpSessions, request>>
  /\ UNCHANGED vars

\* app.post("/messages", ...)
Messages ==
  /\ stage = "route"
  /\ request.path = "/messages"
  /\ request.method = "POST"
  /\ IF ~isAuthorized(request) THEN Answer(401)
     ELSE IF getSessionIdFromRequest(request) = <<>> THEN Answer(400)
     ELSE IF getSessionIdFromRequest(request)[1] \notin sessions
       THEN Answer(404)
     ELSE /\ status' = 202
          /\ reached' = <<[map |-> "sessions",
                           id |-> getSessionIdFromRequest(request)[1]]>>
          /\ stage' = "done"
          /\ UNCHANGED <<authTokens, sessions, streamableHttpSessions,
                         request>>
  /\ UNCHANGED vars

\* no route of the application takes the request: Express answers 404
NotFound ==
  /\ stage = "route"
  /\ request.path # "/mcp"
  /\ ~(request.path = "/sse" /\ request.method = "GET")
  /\ ~(request.path = "/messages" /\ request.method = "POST")
  /\ Answer(404)
  /\ UNCHANGED vars

\* res.on("close", () => this.sessions.delete(sessionId))
SseClosed(sessionId) ==
  /\ sessionId \in sessions
  /\ sessions' = sessions \ {sessionId}
  /\ UNCHANGED <<authTokens, streamableHttpSessions, request, stage, status,
                 reached>>
  /\ UNCHANGED vars

\* transport.onclose = () => this.streamableHttpSessions.delete(sid)
TransportClosed(sid) ==
  /\ sid \in streamableHttpSessions
  /\ streamableHttpSessions' = streamableHttpSessions \ {sid}
  /\ UNCHANGED <<authTokens, sessions, request, stage, status, reached>>
  /\ UNCHANGED vars

\* the handler has returned and the response is over: the next request
ResponseFinished ==
  /\ stage = "done"
  /\ request' = NoRequest
  /\ stage' = "idle"
  /\ status' = 0
  /\ reached' = <<>>
  /\ UNCHANGED <<authTokens, sessions, streamableHttpSessions>>
  /\ UNCHANGED vars

HttpNext ==
  \/ Arrive
  \/ ExpressJson
  \/ Mcp
  \/ Sse
  \/ Messages
  \/ NotFound
  \/ \E sessionId \in SessionIds : SseClosed(sessionId)
  \/ \E sid \in SessionIds : TransportClosed(sid)
  \/ ResponseFinished

HttpSpec == HttpInit /\ [][HttpNext]_httpVars

(***************************************************************************)
(* Observation of the document under construction.                         *)
(***************************************************************************)
\* every node of the tree rooted at node, the root included
RECURSIVE NodesOf(_)
NodesOf(node) ==
  {node} \cup
    (IF "content" \in DOMAIN node
       THEN UNION {NodesOf(node.content[k]) : k \in 1..Len(node.content)}
       ELSE {})

NodesIn(seq) == UNION {NodesOf(seq[k]) : k \in 1..Len(seq)}

\* the nodes built so far by the running call, by the suspended calls and,
\* once returned, of the document
Produced ==
  NodesIn(ResolveAll(heap, blocks))
    \cup UNION {NodesIn(ResolveAll(callStack[k].heap, callStack[k].blocks)) :
                  k \in 1..Len(callStack)}
    \cup (IF pc = "done" THEN NodesOf(result) ELSE {})

Done == pc = "done"

EmptyParagraph == [type |-> "paragraph", content |-> <<EmptyText>>]

\* the lines of the text handed to createTextADF
InputLines == IF Len(callStack) > 0 THEN callStack[1].lines ELSE lines

(***************************************************************************)
(* C1: every call of parseMarkdownBlocks returns at least one block: the   *)
(* returned document has at least one block, and every blockquote, whose   *)
(* content is what a recursive call returned, has non-empty content.       *)
(***************************************************************************)
C1_NeverZeroBlocks ==
  /\ Done => Len(result.content) >= 1
  /\ \A n \in Produced : n.type = "blockquote" => Len(n.content) >= 1
  /\ (pc = "loop" /\ ~(i < Len(lines))) => Len(Returned) >= 1

\* a recursive call that pushed no block has returned the fallback
\* paragraph into a blockquote of the finished document
C1_Witness ==
  /\ Done
  /\ \E n \in Produced : n.type = "blockquote" /\ n.content = <<EmptyParagraph>>

(***************************************************************************)
(* C2: the conversion never reaches the error outcome; what it returns is  *)
(* a document whose top-level nodes are blocks; and a text none of whose   *)
(* lines fits a block rule becomes paragraphs only.                        *)
(***************************************************************************)
BlockTypes ==
  {"paragraph", "heading", "codeBlock", "blockquote", "bulletList",
   "orderedList", "table"}

\* no line of the input is a fence, a table header, a quote, a heading or
\* a list item
FitsNoBlockRule ==
  \A k \in 1..Len(InputLines) :
    LET l == TrimEnd(InputLines[k]) IN
      /\ ~codeFenceStart(Trim(l)).matched
      /\ ~(/\ k < Len(InputLines)
           /\ Includes(l, "|")
           /\ isTableSeparator(Trim(InputLines[k + 1])))
      /\ ~IsQuoteLine(l)
      /\ ~headingMatch(Trim(l)).matched
      /\ ~bulletMatch(l).matched
      /\ ~orderedMatch(l).matched

C2_Total ==
  /\ pc # "error"
  /\ Done =>
       /\ result.type = "doc"
       /\ \A k \in 1..Len(result.content) :
            result.content[k].type \in BlockTypes
       /\ FitsNoBlockRule =>
            \A k \in 1..Len(result.content) :
              result.content[k].type = "paragraph"

\* a finished conversion of a text with a cell separator on its last line
\* (no separator row can follow) and an unmatched inline delimiter
C2_Witness ==
  /\ Done
  /\ FitsNoBlockRule
  /\ Includes(InputLines[Len(InputLines)], "|")
  /\ \E n \in Produced : n = [type |-> "text", text |-> <<"*">>]

(***************************************************************************)
(* C4: a text that is empty or has only blank lines converts to exactly    *)
(* one paragraph holding one text node with empty text and no marks.       *)
(***************************************************************************)
OnlyBlankLines ==
  \A k \in 1..Len(InputLines) : Len(Trim(InputLines[k])) = 0

C4_BlankInput ==
  (Done /\ OnlyBlankLines) =>
    result.content = <<[type |-> "paragraph",
                        content |-> <<[type |-> "text", text |-> <<>>]>>]>>

\* a finished conversion of two or more whitespace-only lines
C4_Witness ==
  /\ Done
  /\ OnlyBlankLines
  /\ Len(InputLines) >= 2
  /\ Len(InputLines[1]) > 0

(***************************************************************************)
(* C5: every text node carries at most one mark; the node a pattern        *)
(* yields has exactly one mark and holds the matched inner text as it is,  *)
(* special characters included; the other text nodes have no mark.         *)
(***************************************************************************)
MarkTypes == {"strong", "em", "strike", "code", "link"}

MarkCount(n) == IF "marks" \in DOMAIN n THEN Len(n.marks) ELSE 0

\* the nodes of one tokenizer call, iteration by iteration
C5_CallOk(t) ==
  \A k \in 1..Len(t) :
    LET remaining == Slice(t, k - 1)
        step == InlineStep(remaining)
        node == step.nodes[1]
        consumed == Len(remaining) - Len(step.remaining)
    IN /\ Len(step.nodes) = 1
       /\ IF \E p \in 1..7 : PatternMatch(p, remaining).matched
            THEN /\ MarkCount(node) = 1
                 /\ node.marks[1].type \in MarkTypes
                 \* the text is a verbatim slice of the matched span
                 /\ \E d \in 1..2 :
                      node.text = SliceTo(remaining, d, d + Len(node.text))
                 /\ Len(node.text) < consumed
            ELSE /\ MarkCount(node) = 0
                 /\ node.text = SliceTo(remaining, 0, consumed)

C5_AtMostOneMark ==
  /\ \A n \in Produced : n.type = "text" => MarkCount(n) <= 1
  /\ \A t \in inlineCalls : C5_CallOk(t)

\* the document holds a marked node whose text still has the delimiters
\* of another pattern
C5_Witness ==
  /\ Done
  /\ \E n \in Produced :
       /\ n.type = "text"
       /\ MarkCount(n) = 1
       /\ n.marks[1].type = "strong"
       /\ n.text = <<"_", "a", "_">>

(***************************************************************************)
(* C6: every paragraph has content; a text node with empty text occurs in  *)
(* a paragraph only as its single node (the paragraph of an empty source   *)
(* text), and an empty source text gives exactly that paragraph.           *)
(***************************************************************************)
C6_ParagraphOk(n) ==
  /\ Len(n.content) >= 1
  /\ (\E k \in 1..Len(n.content) :
        n.content[k].type = "text" /\ n.content[k].text = <<>>)
       => n.content = <<[type |-> "text", text |-> <<>>]>>

C6_ParagraphNonEmpty ==
  /\ \A n \in Produced : n.type = "paragraph" => C6_ParagraphOk(n)
  /\ \A t \in inlineCalls :
       t = <<>> => \E n \in Produced : n = EmptyParagraph

\* a paragraph built from an empty source text, next to a paragraph that
\* a list continuation has extended
C6_Witness ==
  /\ Done
  /\ \E n \in Produced : n = EmptyParagraph
  /\ \E n \in Produced :
       /\ n.type = "paragraph"
       /\ \E k \in 1..Len(n.content) : n.content[k].type = "hardBreak"

(***************************************************************************)
(* C3: every step makes progress.  A step of the line loop leaves the      *)
(* cursor on a later line, whatever lines its inner loop consumed; a       *)
(* recursive call gets a text strictly shorter than its caller's; when     *)
(* the call returns the caller's cursor has moved on; and every iteration  *)
(* of the tokenizer's loop, on any remaining text it can meet, leaves a    *)
(* strictly shorter remaining text.                                        *)
(***************************************************************************)
C3_InlineProgress(t) ==
  \A k \in 1..Len(t) :
    Len(InlineStep(Slice(t, k - 1)).remaining) < Len(Slice(t, k - 1))

C3_Step ==
  /\ (pc = "loop" /\ pc' = "loop" /\ Len(callStack') = Len(callStack))
       => (i' > i /\ i' <= Len(lines) + 1)
  /\ Len(callStack') > Len(callStack) => Len(text') < Len(text)
  /\ Len(callStack') < Len(callStack)
       => i' > callStack[Len(callStack)].i
  /\ \A t \in inlineCalls' : C3_InlineProgress(t)

C3_Progress == [][C3_Step]_vars

\* a conversion has returned after a fence, a table or a quote consumed
\* several lines in one step and the tokenizer ran on a text with markup
C3_Witness ==
  /\ Done
  /\ Len(lines) = 3
  /\ Len(result.content) = 1
  /\ result.content[1].type \in {"codeBlock", "table", "blockquote"}
  /\ \E n \in Produced : n.type = "text" /\ MarkCount(n) = 1

(***************************************************************************)
(* C7: an ordered item that opens a list sets the list's attrs.order to    *)
(* the number written on its line, whatever the number; an ordered item    *)
(* added to an open list leaves the list's attrs as they are.              *)
(***************************************************************************)
C7_Step ==
  (InLoop /\ Branch = "ordered") =>
    LET m == orderedMatch(line)
        node == listStack'[Len(listStack')].node
    IN IF node > Len(heap)
         THEN /\ heap'[node].type = "orderedList"
              /\ "attrs" \in DOMAIN heap'[node]
              /\ heap'[node].attrs.order = Number(m.digits)
         ELSE ("attrs" \in DOMAIN heap'[node]) = ("attrs" \in DOMAIN heap[node])

C7_StartIsFirstNumber == [][C7_Step]_vars

(***************************************************************************)
(* C8.  As claimed: every row of a table has as many cells as its header   *)
(* row.  As amended: the header row has one cell per cell of the header    *)
(* line, and every body row has one cell per cell of its own line, which   *)
(* may be more or fewer than the header's.                                 *)
(***************************************************************************)
\* the number of "|"-delimited cells of a row line: one more than its
\* "|" characters, not counting one that leads and one that ends the line
CellCount(ln) ==
  LET t == Trim(ln)
      pipes == Cardinality({k \in 1..Len(t) : t[k] = "|"})
      lead == IF Len(t) >= 1 /\ t[1] = "|" THEN 1 ELSE 0
      trail == IF Len(t) - lead >= 1 /\ t[Len(t)] = "|" THEN 1 ELSE 0
  IN 1 + pipes - lead - trail

C8_SameCellCountAsHeader ==
  \A n \in Produced :
    n.type = "table" =>
      \A r \in 1..Len(n.content) :
        Len(n.content[r].content) = Len(n.content[1].content)

C8_Step ==
  (InLoop /\ Branch = "table" /\ pc' = "loop") =>
    LET table == blocks'[Len(blocks')] IN
      /\ table.type = "table"
      /\ Len(table.content[1].content) = CellCount(trimmed)
      /\ \A r \in 2..Len(table.content) :
           Len(table.content[r].content) = CellCount(Line(i + r))

C8_CellCountPerLine == [][C8_Step]_vars

\* a table whose body row has more cells than its header row
C8_Witness ==
  /\ Done
  /\ \E n \in Produced :
       /\ n.type = "table"
       /\ Len(n.content) = 2
       /\ Len(n.content[2].content) > Len(n.content[1].content)

(***************************************************************************)
(* C9: when the loop is at a non-blank line that is no opening fence,      *)
(* contains "|" and is followed by a separator row, the step appends       *)
(* exactly one table after the pending paragraph: a row of one             *)
(* tableHeader per cell of the line, then one row of tableCells per line   *)
(* of the maximal run of non-blank lines with "|" that follows the         *)
(* separator row; the loop resumes at the first line after the run.        *)
(***************************************************************************)
C9_SeparatorCell(c) ==
  \E a \in {0, 1}, b \in {0, 1} :
    /\ a = 1 => (Len(c) >= 1 /\ c[1] = ":")
    /\ b = 1 => (Len(c) >= 1 /\ c[Len(c)] = ":")
    /\ Len(c) - a - b >= 3
    /\ \A k \in (a + 1)..(Len(c) - b) : c[k] = "-"

C9_SeparatorRow(ln) ==
  \A k \in 1..Len(splitTableRow(ln)) : C9_SeparatorCell(splitTableRow(ln)[k])

C9_RowLine(ln) == Len(Trim(ln)) > 0 /\ Includes(ln, "|")

C9_RowOf(row, cellType, ln) ==
  /\ row.type = "tableRow"
  /\ Len(row.content) = CellCount(ln)
  /\ \A k \in 1..Len(row.content) : row.content[k].type = cellType

C9_Step ==
  (/\ InLoop
   /\ Len(trimmed) > 0
   /\ ~codeFenceStart(trimmed).matched
   /\ Includes(trimmed, "|")
   /\ i + 1 < Len(lines)
   /\ C9_SeparatorRow(Trim(Line(i + 1))))
  =>
    LET table == blocks'[Len(blocks')]
        rows == i' - (i + 2)
    IN /\ pc' = "loop"
       /\ Len(callStack') = Len(callStack)
       /\ Len(blocks') >= 1
       /\ SubSeq(blocks', 1, Len(blocks') - 1)
            = flushParagraph(blocks, paragraphLines)
       /\ table.type = "table"
       /\ rows >= 0
       /\ i' <= Len(lines)
       /\ \A k \in (i + 2)..(i' - 1) : C9_RowLine(Line(k))
       /\ i' < Len(lines) => ~C9_RowLine(Line(i'))
       /\ Len(table.content) = 1 + rows
       /\ C9_RowOf(table.content[1], "tableHeader", trimmed)
       /\ \A r \in 1..rows :
            C9_RowOf(table.content[1 + r], "tableCell", Line(i + 1 + r))

C9_TableBlock == [][C9_Step]_vars

\* the loop has just appended a table with a header row and one body row
\* and stands after the run
C9_Witness ==
  /\ pc = "loop"
  /\ i = 3
  /\ Len(blocks) = 1
  /\ blocks[1].type = "table"
  /\ Len(blocks[1].content) = 2

(***************************************************************************)
(* C10: a list item indented deeper than the innermost open list opens a   *)
(* new list that becomes the last child of the last item of that list,     *)
(* after the item's paragraph; the item is the new list's only item, the   *)
(* open lists stay open and no top-level block is added.                   *)
(***************************************************************************)
C10_Indent ==
  IF Branch = "bullet" THEN getLineIndent(bulletMatch(line).space)
  ELSE getLineIndent(orderedMatch(line).space)

C10_Step ==
  (/\ InLoop
   /\ Branch \in {"bullet", "ordered"}
   /\ Len(listStack) > 0
   /\ C10_Indent > listStack[Len(listStack)].indent)
  =>
    LET top == listStack[Len(listStack)]
        items == heap[top.node].content
        parentItem == items[Len(items)].id
        entry == listStack'[Len(listStack')]
        list == heap'[entry.node]
    IN /\ listStack' = Append(listStack, entry)
       /\ entry.indent = C10_Indent
       /\ entry.node > Len(heap)
       /\ list.type = (IF Branch = "bullet" THEN "bulletList"
                       ELSE "orderedList")
       /\ Len(list.content) = 1
       /\ heap'[list.content[1].id].type = "listItem"
       /\ Len(heap'[list.content[1].id].content) = 1
       /\ heap'[list.content[1].id].content[1].type = "paragraph"
       /\ heap[parentItem].content[1].type = "paragraph"
       /\ heap'[parentItem].content
            = Append(heap[parentItem].content, Ref(entry.node))
       /\ heap'[top.node].content = items
       /\ blocks' = blocks

C10_NestedList == [][C10_Step]_vars

\* one top-level bulletList whose single item holds a paragraph and a
\* nested bulletList
C10_Witness ==
  /\ Done
  /\ Len(result.content) = 1
  /\ result.content[1].type = "bulletList"
  /\ Len(result.content[1].content) = 1
  /\ Len(result.content[1].content[1].content) = 2
  /\ result.content[1].content[1].content[1].type = "paragraph"
  /\ result.content[1].content[1].content[2].type = "bulletList"

(***************************************************************************)
(* C11.  A step at a line classified as a blockquote takes the maximal run *)
(* of lines that begin with optional whitespace and ">", suspends the      *)
(* caller with its pending paragraph flushed, and starts the segmenter     *)
(* afresh on the text made of the run's lines, each without its leading    *)
(* whitespace, its ">" and at most one character after it, joined by       *)
(* newlines; when that call returns, exactly one blockquote holding what   *)
(* it returned is appended and the caller resumes after the run.  As       *)
(* claimed the one character dropped after ">" is a space; as amended it   *)
(* is one whitespace character of any kind.                                *)
(***************************************************************************)
C11_Quoted(ln) ==
  \E n \in 1..Len(ln) :
    ln[n] = ">" /\ \A k \in 1..(n - 1) : ln[k] \in WhiteSpace

C11_Strip(ln, class) ==
  LET n == CHOOSE n \in 1..Len(ln) :
             ln[n] = ">" /\ \A k \in 1..(n - 1) : ln[k] # ">"
      rest == SubSeq(ln, n + 1, Len(ln))
  IN IF Len(rest) > 0 /\ rest[1] \in class
       THEN SubSeq(rest, 2, Len(rest))
       ELSE rest

\* the text of the lines from (0-based) to (excluded) of ls, dequoted
C11_Dequoted(ls, from, to, class) ==
  Join([k \in 1..(to - from) |-> C11_Strip(ls[from + k], class)], <<"\n">>)

C11_CallStep(class) ==
  (InLoop /\ Branch = "quote") =>
    /\ Len(callStack') = Len(callStack) + 1
    /\ LET frame == callStack'[Len(callStack')] IN
         /\ frame.i = i
         /\ frame.cursor > i
         /\ frame.cursor <= Len(lines)
         /\ \A k \in i..(frame.cursor - 1) : C11_Quoted(Line(k))
         /\ frame.cursor < Len(lines) => ~C11_Quoted(Line(frame.cursor))
         /\ frame.lines = lines
         /\ frame.blocks = flushParagraph(blocks, paragraphLines)
         /\ text' = C11_Dequoted(lines, i, frame.cursor, class)
    /\ lines' = SplitLines(text')
    /\ i' = 0
    /\ blocks' = <<>>
    /\ paragraphLines' = <<>>
    /\ listStack' = <<>>

C11_ReturnStep(class) ==
  Len(callStack') < Len(callStack) =>
    LET caller == callStack[Len(callStack)] IN
      /\ text = C11_Dequoted(caller.lines, caller.i, caller.cursor, class)
      /\ Len(blocks') = Len(caller.blocks) + 1
      /\ SubSeq(blocks', 1, Len(caller.blocks)) = caller.blocks
      /\ blocks'[Len(blocks')].type = "blockquote"
      /\ blocks'[Len(blocks')].content = Returned
      /\ lines' = caller.lines
      /\ i' = caller.cursor

C11_QuoteOfSpaceStripped ==
  [][C11_CallStep({" "}) /\ C11_ReturnStep({" "})]_vars

C11_QuoteOfStripped ==
  [][C11_CallStep(WhiteSpace) /\ C11_ReturnStep(WhiteSpace)]_vars

\* two quoted plain lines, the second with a tab after its marker, have
\* become one blockquote holding one paragraph that joins both
C11_Witness ==
  /\ Done
  /\ InputLines = <<(<<">", " ", "a">>), (<<">", "\t", "b">>)>>
  /\ result.content
       = <<[type |-> "blockquote",
            content |-> <<[type |-> "paragraph",
                           content |-> <<TextNode(<<"a", " ", "b">>)>>]>>]>>

(***************************************************************************)
(* C12.  A step at an opening fence (three backquotes, an optional         *)
(* language word, nothing else but surrounding whitespace) appends, after  *)
(* the pending paragraph, exactly one codeBlock whose single text node is  *)
(* the lines after the fence, as they are and joined by newlines, up to    *)
(* the first line that is only three backquotes, or to the end of the      *)
(* lines when there is none.  None of these lines, blank or looking like   *)
(* markup, nor the closing fence, gives another node or reaches the        *)
(* tokenizer; attrs.language is there exactly when a word was given; the   *)
(* loop resumes after the closing fence.                                   *)
(***************************************************************************)
C12_Fence == <<BQ, BQ, BQ>>

\* the language word of an opening fence line
C12_Word(ln) == SubSeq(Trim(ln), 4, Len(Trim(ln)))

C12_OpeningFence(ln) ==
  /\ Len(Trim(ln)) >= 3
  /\ SubSeq(Trim(ln), 1, 3) = C12_Fence
  /\ \A k \in 1..Len(C12_Word(ln)) : C12_Word(ln)[k] \in WordChars \cup {"-"}

C12_ClosingFence(ln) == Trim(ln) = C12_Fence

C12_Step ==
  (InLoop /\ C12_OpeningFence(rawLine)) =>
    \E close \in (i + 1)..Len(lines) :
      /\ \A k \in (i + 1)..(close - 1) : ~C12_ClosingFence(Line(k))
      /\ close < Len(lines) => C12_ClosingFence(Line(close))
      /\ LET node == blocks'[Len(blocks')] IN
           /\ blocks' = Append(flushParagraph(blocks, paragraphLines), node)
           /\ node.type = "codeBlock"
           /\ Len(node.content) = 1
           /\ node.content[1]
                = [type |-> "text",
                   text |-> Join([k \in 1..(close - (i + 1)) |-> lines[i + 1 + k]],
                                 <<"\n">>)]
           /\ ("attrs" \in DOMAIN node) = (Len(C12_Word(rawLine)) > 0)
           /\ "attrs" \in DOMAIN node
                => node.attrs = [language |-> C12_Word(rawLine)]
      /\ i' = close + 1
      /\ inlineCalls' = FlushCalls(paragraphLines)
      /\ UNCHANGED <<heap, callStack, pc>>

C12_CodeBlock == [][C12_Step]_vars

\* a fence with a language, a line that looks like a bullet item with
\* emphasis, and a closing fence have become one codeBlock
C12_Witness ==
  /\ Done
  /\ InputLines = <<(<<BQ, BQ, BQ, "j", "s">>),
                    (<<"-", " ", "*", "a", "*">>),
                    (<<BQ, BQ, BQ>>)>>
  /\ result.content
       = <<[type |-> "codeBlock",
            attrs |-> [language |-> <<"j", "s">>],
            content |-> <<TextNode(<<"-", " ", "*", "a", "*">>)>>]>>

(***************************************************************************)
(* C13.  As claimed: for every text without "~~", "*", "_", a backquote,   *)
(* "[" or "]" that is handed to the tokenizer, the tokenizer returns       *)
(* exactly one text node, without marks, whose text is the input.  As      *)
(* amended: this holds of every such text that is not empty, and for the   *)
(* empty text the tokenizer returns no node.                               *)
(***************************************************************************)
C13_Plain(t) ==
  /\ \A k \in 1..Len(t) : t[k] \notin {"*", "_", BQ, "[", "]"}
  /\ \A k \in 1..(Len(t) - 1) : ~(t[k] = "~" /\ t[k + 1] = "~")

C13_OneNode(t) == parseMarkdownInline(t) = <<[type |-> "text", text |-> t]>>

C13_PlainIsOneNode ==
  \A t \in inlineCalls : C13_Plain(t) => C13_OneNode(t)

C13_NonEmptyPlainIsOneNode ==
  \A t \in inlineCalls :
    C13_Plain(t) =>
      IF Len(t) > 0 THEN C13_OneNode(t) ELSE parseMarkdownInline(t) = <<>>

\* the tokenizer was handed a text with a single tilde and the document
\* holds it as the one node of a paragraph
C13_Witness ==
  /\ Done
  /\ <<"~", "a">> \in inlineCalls
  /\ result.content
       = <<[type |-> "paragraph", content |-> <<TextNode(<<"~", "a">>)>>]>>

(***************************************************************************)
(* C14.  A step at a blank line empties the list stack, whatever its       *)
(* depth, and touches no list.  A list item on the line after a blank      *)
(* line therefore opens a new list that is a new top-level block of the    *)
(* running call: no list or item that existed before is changed, so the    *)
(* item is neither added to nor nested in a list opened before the blank   *)
(* line, even one of its own kind and indent.                              *)
(***************************************************************************)
C14_Blank(ln) == \A k \in 1..Len(ln) : ln[k] \in WhiteSpace

C14_BlankStep ==
  (InLoop /\ C14_Blank(rawLine)) =>
    /\ listStack' = <<>>
    /\ heap' = heap
    /\ blocks' = flushParagraph(blocks, paragraphLines)

C14_ItemStep ==
  (/\ InLoop
   /\ Branch \in {"bullet", "ordered"}
   /\ i > 0
   /\ C14_Blank(Line(i - 1)))
  =>
    /\ Len(listStack') = 1
    /\ listStack'[1].node > Len(heap)
    /\ blocks' = Append(blocks, Ref(listStack'[1].node))
    /\ heap'[listStack'[1].node].type
         = (IF Branch = "bullet" THEN "bulletList" ELSE "orderedList")
    /\ Len(heap'[listStack'[1].node].content) = 1
    /\ \A id \in 1..Len(heap) : heap'[id] = heap[id]

C14_BlankClosesLists == [][C14_BlankStep /\ C14_ItemStep]_vars

\* a list two levels deep, a blank line and an item at the nested indent
\* have become two top-level lists; the second holds only the last item
C14_Witness ==
  /\ Done
  /\ Len(InputLines) = 4
  /\ C14_Blank(InputLines[3])
  /\ Len(result.content) = 2
  /\ result.content[1].type = "bulletList"
  /\ Len(result.content[1].content) = 1
  /\ Len(result.content[1].content[1].content) = 2
  /\ result.content[1].content[1].content[2].type = "bulletList"
  /\ result.content[2].type = "bulletList"
  /\ Len(result.content[2].content) = 1

(***************************************************************************)
(* C15.  Content sequences keep source order.  The loop visits the lines   *)
(* in increasing order, so a node's first contributing line is the line    *)
(* of the step that created it and source order is creation order.         *)
(* Every step changes the tree built so far only at its right edge: in     *)
(* every content sequence (blocks, items of a list, children of an item,   *)
(* inline nodes of a paragraph) the nodes before the last stay as they     *)
(* are, the last may grow in the same way, and new nodes come after it.    *)
(* While a paragraph is pending nothing is emitted and its lines are       *)
(* buffered in order; the step that ends it emits the paragraph before     *)
(* anything else.  The rows of a table are those of its lines in order,    *)
(* and the texts of the nodes the tokenizer returns occur in its input     *)
(* in that order.                                                          *)
(***************************************************************************)
RECURSIVE C15_Grown(_, _)
C15_Grown(old, new) ==
  IF "content" \notin DOMAIN old THEN new = old
  ELSE /\ "content" \in DOMAIN new
       /\ [new EXCEPT !.content = old.content] = old
       /\ Len(new.content) >= Len(old.content)
       /\ \A k \in 1..(Len(old.content) - 1) : new.content[k] = old.content[k]
       /\ Len(old.content) > 0
            => C15_Grown(old.content[Len(old.content)],
                         new.content[Len(old.content)])

C15_GrownSeq(old, new) ==
  C15_Grown([type |-> "root", content |-> old],
            [type |-> "root", content |-> new])

\* sub occurs in t as a subsequence
RECURSIVE C15_Subsequence(_, _)
C15_Subsequence(sub, t) ==
  IF sub = <<>> THEN TRUE
  ELSE IF t = <<>> THEN FALSE
  ELSE IF Head(sub) = Head(t) THEN C15_Subsequence(Tail(sub), Tail(t))
  ELSE C15_Subsequence(sub, Tail(t))

C15_Texts(nodes) == Join([k \in 1..Len(nodes) |-> nodes[k].text], <<>>)

C15_Step ==
  /\ Len(callStack') = Len(callStack)
       => C15_GrownSeq(ResolveAll(heap, blocks), ResolveAll(heap', blocks'))
  /\ Len(callStack') > Len(callStack)
       => C15_GrownSeq(ResolveAll(heap, blocks),
                       ResolveAll(callStack'[Len(callStack')].heap,
                                  callStack'[Len(callStack')].blocks))
  /\ Len(callStack') < Len(callStack)
       => /\ C15_GrownSeq(ResolveAll(callStack[Len(callStack)].heap,
                                     callStack[Len(callStack)].blocks),
                          ResolveAll(heap', blocks'))
          /\ Len(blocks') = Len(callStack[Len(callStack)].blocks) + 1
  /\ pc' = "done"
       => (Len(blocks') > 0 => result'.content = ResolveAll(heap', blocks'))
  /\ Len(paragraphLines) > 0 =>
       IF Len(paragraphLines') > 0
         THEN /\ paragraphLines' = Append(paragraphLines, Trim(rawLine))
              /\ UNCHANGED <<blocks, heap, callStack>>
         ELSE LET emitted == IF Len(callStack') > Len(callStack)
                               THEN callStack'[Len(callStack')].blocks
                             ELSE IF Len(callStack') < Len(callStack)
                               THEN blocks'[Len(blocks')].content
                               ELSE blocks'
              IN /\ Len(emitted) > Len(blocks)
                 /\ emitted[Len(blocks) + 1]
                      = buildParagraph(Join(paragraphLines, <<" ">>))
  /\ (InLoop /\ Branch = "table" /\ pc' = "loop") =>
       LET table == blocks'[Len(blocks')] IN
         /\ table.content[1] = TableRow(rawLine, "tableHeader")
         /\ \A r \in 2..Len(table.content) :
              table.content[r] = TableRow(Line(i + r), "tableCell")
  /\ \A t \in inlineCalls' :
       C15_Subsequence(C15_Texts(parseMarkdownInline(t)), t)

C15_SourceOrder == [][C15_Step]_vars

\* a paragraph of one plain line, then a list whose item has been
\* extended by a continuation line
C15_Witness ==
  /\ Done
  /\ Len(result.content) = 2
  /\ result.content[1].type = "paragraph"
  /\ result.content[2].type = "bulletList"
  /\ Len(result.content[2].content) = 1
  /\ \E k \in 2..Len(result.content[2].content[1].content[1].content) :
       result.content[2].content[1].content[1].content[k].type = "hardBreak"

(***************************************************************************)
(* C16.  A step at a non-blank line has the effect of the first rule the   *)
(* line fits, in the order fence, table, blockquote, heading, bullet       *)
(* item, ordered item, list continuation, default, whatever later rules    *)
(* it fits too: a codeBlock, a table, a recursive call, a heading, a list  *)
(* item of the kind, a change inside the open lists only, or one more      *)
(* buffered paragraph line.                                                *)
(***************************************************************************)
C16_Rule ==
  IF C12_OpeningFence(rawLine) THEN "fence"
  ELSE IF /\ Includes(rawLine, "|")
          /\ i + 1 < Len(lines)
          /\ C9_SeparatorRow(Trim(Line(i + 1)))
    THEN "table"
  ELSE IF C11_Quoted(rawLine) THEN "quote"
  ELSE IF headingMatch(trimmed).matched THEN "heading"
  ELSE IF bulletMatch(line).matched THEN "bullet"
  ELSE IF orderedMatch(line).matched THEN "ordered"
  ELSE IF /\ Len(listStack) > 0
          /\ getLineIndent(line) > listStack[Len(listStack)].indent
    THEN "continuation"
  ELSE "default"

\* the step appended one block of the type after the pending paragraph
C16_Appended(type) ==
  /\ Len(callStack') = Len(callStack)
  /\ blocks' = Append(flushParagraph(blocks, paragraphLines),
                      blocks'[Len(blocks')])
  /\ blocks'[Len(blocks')].type = type
  /\ heap' = heap

\* the step pushed one item onto a list of the kind, now innermost
C16_Item(kind) ==
  /\ Len(callStack') = Len(callStack)
  /\ Len(listStack') > 0
  /\ listStack'[Len(listStack')].type = kind
  /\ heap'[Len(heap')].type = "listItem"
  /\ Len(heap'[listStack'[Len(listStack')].node].content) > 0
  /\ LastItem(heap', listStack'[Len(listStack')].node) = Len(heap')
  /\ Len(heap') > Len(heap)
  /\ \A k \in 1..Len(blocks') :
       k > Len(flushParagraph(blocks, paragraphLines))
         => blocks'[k].type = "ref"

C16_Step ==
  (InLoop /\ ~C14_Blank(rawLine)) =>
    CASE C16_Rule = "fence" -> C16_Appended("codeBlock")
      [] C16_Rule = "table" -> C16_Appended("table")
      [] C16_Rule = "quote" -> Len(callStack') = Len(callStack) + 1
      [] C16_Rule = "heading" -> C16_Appended("heading")
      [] C16_Rule = "bullet" -> C16_Item("bullet")
      [] C16_Rule = "ordered" -> C16_Item("ordered")
      [] C16_Rule = "continuation" ->
           /\ UNCHANGED <<blocks, listStack, paragraphLines, callStack>>
           /\ Len(heap') = Len(heap)
      [] C16_Rule = "default" ->
           /\ paragraphLines' = Append(paragraphLines, trimmed)
           /\ UNCHANGED <<blocks, heap, callStack>>

C16_FirstRuleWins == [][C16_Step]_vars

\* a line with a quote marker and a cell separator, followed by a
\* separator row, has become a table
C16_Witness ==
  /\ Done
  /\ InputLines = <<(<<">", " ", "a", "|", "b">>),
                    (<<"-", "-", "-", "|", "-", "-", "-">>)>>
  /\ Len(result.content) = 1
  /\ result.content[1].type = "table"

(***************************************************************************)
(* C17.  A step at a non-blank line that fits none of the rules fence,     *)
(* table, blockquote, heading, bullet item, ordered item, while a list is  *)
(* open and the line's indent is greater than the innermost entry's,       *)
(* creates no block, list or item and leaves the stack as it is.  It       *)
(* changes one node only, the first paragraph of the last item of the      *)
(* innermost list: the line's tokenized text is appended to it after one   *)
(* hardBreak, or replaces its content when that is only the placeholder.   *)
(* Item texts are never empty, so no item the loop builds holds the        *)
(* placeholder; that case is checked on appendContinuationToListItem       *)
(* applied to a list whose item holds it.                                  *)
(***************************************************************************)
C17_Placeholder == <<[type |-> "text", text |-> <<>>]>>

C17_Appended(old, inline) ==
  IF old = C17_Placeholder THEN inline
  ELSE old \o <<[type |-> "hardBreak"]>> \o inline

\* a bullet list whose only item holds the placeholder paragraph
C17_PlaceholderList ==
  <<[type |-> "bulletList", content |-> <<Ref(2)>>],
    [type |-> "listItem",
     content |-> <<[type |-> "paragraph", content |-> C17_Placeholder]>>]>>

C17_Step ==
  (InLoop /\ ~C14_Blank(rawLine) /\ C16_Rule = "continuation") =>
    LET top == listStack[Len(listStack)]
        items == heap[top.node].content
        item == items[Len(items)].id
        inline == parseMarkdownInline(Trim(rawLine))
    IN /\ UNCHANGED <<blocks, listStack, paragraphLines, callStack>>
       /\ Len(heap') = Len(heap)
       /\ \A id \in 1..Len(heap) : id # item => heap'[id] = heap[id]
       /\ heap[item].content[1].type = "paragraph"
       /\ heap'[item]
            = [heap[item] EXCEPT
                 !.content[1].content = C17_Appended(@, inline)]
       /\ Len(inline) > 0
       /\ heap[item].content[1].content # C17_Placeholder
       /\ appendContinuationToListItem(C17_PlaceholderList,
                                       Entry("bullet", 0, 1), line)
            = [C17_PlaceholderList EXCEPT ![2].content[1].content = inline]

C17_Continuation == [][C17_Step]_vars

\* a bullet item and an indented line have become one item whose
\* paragraph holds the item's text, a hardBreak and the line's nodes
C17_Witness ==
  /\ Done
  /\ Len(InputLines) = 2
  /\ Len(result.content) = 1
  /\ result.content[1].type = "bulletList"
  /\ Len(result.content[1].content) = 1
  /\ result.content[1].content[1].content
       = <<[type |-> "paragraph",
            content |->
              <<[type |-> "text", text |-> <<"a">>,
                 marks |-> <<[type |-> "em"]>>],
                [type |-> "hardBreak"],
                [type |-> "text", text |-> <<"c">>,
                 marks |-> <<[type |-> "link",
                              attrs |-> [href |-> <<"d">>]]>>],
                [type |-> "text", text |-> <<"*">>],
                [type |-> "text", text |-> <<"e">>]>>]>>

(***************************************************************************)
(* C18.  A step at a non-blank line that fits no block rule, while lists   *)
(* are open and the line's indent is not greater than the innermost        *)
(* entry's, empties the whole list stack, changes no list or item, and     *)
(* makes the line's text the first line of the pending paragraph.  While   *)
(* a paragraph is pending no list is open and no step changes a list or    *)
(* item that exists; the step that ends the paragraph emits it as a block  *)
(* of the running call, after the blocks emitted so far.                   *)
(***************************************************************************)
C18_Step ==
  /\ (/\ InLoop
      /\ ~C14_Blank(rawLine)
      /\ C16_Rule = "default"
      /\ Len(listStack) > 0
      /\ getLineIndent(rawLine) <= listStack[Len(listStack)].indent)
     =>
       /\ listStack' = <<>>
       /\ paragraphLines' = <<Trim(rawLine)>>
       /\ UNCHANGED <<blocks, heap, callStack>>
  /\ (pc = "loop" /\ Len(paragraphLines) > 0) =>
       /\ listStack = <<>>
       /\ Len(callStack') = Len(callStack)
            => \A id \in 1..Len(heap) : heap'[id] = heap[id]
       /\ Len(paragraphLines') = 0 =>
            LET emitted == IF Len(callStack') > Len(callStack)
                             THEN callStack'[Len(callStack')].blocks
                           ELSE IF Len(callStack') < Len(callStack)
                             THEN Returned
                             ELSE blocks'
            IN /\ Len(emitted) > Len(blocks)
               /\ SubSeq(emitted, 1, Len(blocks)) = ResolveAll(heap, blocks)
                    \/ SubSeq(emitted, 1, Len(blocks)) = blocks
               /\ emitted[Len(blocks) + 1].type = "paragraph"

C18_DefaultClosesLists == [][C18_Step]_vars

\* a list two levels deep and a plain line at the inner indent have
\* become the list and, after it, a paragraph
C18_Witness ==
  /\ Done
  /\ Len(InputLines) = 3
  /\ getLineIndent(InputLines[3]) = 2
  /\ Len(result.content) = 2
  /\ result.content[1].type = "bulletList"
  /\ Len(result.content[1].content) = 1
  /\ Len(result.content[1].content[1].content) = 2
  /\ result.content[1].content[1].content[2].type \in {"bulletList", "orderedList"}
  /\ result.content[2].type = "paragraph"

(***************************************************************************)
(* C19.  A step at a list item whose indent is that of an open list of     *)
(* the other kind, innermost once the deeper lists are closed, replaces    *)
(* that list's stack entry by an entry for a new list of the item's kind   *)
(* holding the item.  The new list is put right after the old one: in the  *)
(* last item of the list of the entry below, or in the blocks when there   *)
(* is no entry below.  The old list is not changed, and no step ever       *)
(* changes a list that is not on the stack.                                *)
(***************************************************************************)
C19_Kind == IF C16_Rule = "bullet" THEN "bullet" ELSE "ordered"

\* the entries that stay when those deeper than the item are closed
C19_Kept == SelectSeq(listStack, LAMBDA e : e.indent <= C10_Indent)

C19_OnStack(stack) == {stack[k].node : k \in 1..Len(stack)}

C19_Lists(hp) ==
  {id \in 1..Len(hp) : hp[id].type \in {"bulletList", "orderedList"}}

C19_SiblingStep ==
  (/\ InLoop
   /\ ~C14_Blank(rawLine)
   /\ C16_Rule \in {"bullet", "ordered"}
   /\ Len(C19_Kept) > 0
   /\ C19_Kept[Len(C19_Kept)].indent = C10_Indent
   /\ C19_Kept[Len(C19_Kept)].type # C19_Kind)
  =>
    LET old == C19_Kept[Len(C19_Kept)].node
        below == SubSeq(C19_Kept, 1, Len(C19_Kept) - 1)
        new == listStack'[Len(listStack')].node
    IN /\ listStack' = Append(below, Entry(C19_Kind, C10_Indent, new))
       /\ new > Len(heap)
       /\ heap'[new].type
            = (IF C19_Kind = "bullet" THEN "bulletList" ELSE "orderedList")
       /\ Len(heap'[new].content) = 1
       /\ heap'[old] = heap[old]
       /\ IF Len(below) = 0
            THEN /\ blocks[Len(blocks)] = Ref(old)
                 /\ blocks' = Append(blocks, Ref(new))
            ELSE LET parentItem == LastItem(heap, below[Len(below)].node) IN
                   /\ heap[parentItem].content[Len(heap[parentItem].content)]
                        = Ref(old)
                   /\ heap'[parentItem].content
                        = Append(heap[parentItem].content, Ref(new))
                   /\ blocks' = blocks

C19_ClosedStep ==
  (pc = "loop" /\ Len(callStack') = Len(callStack)) =>
    \A id \in C19_Lists(heap) :
      id \notin C19_OnStack(listStack') => heap'[id] = heap[id]

C19_SiblingList == [][C19_SiblingStep /\ C19_ClosedStep]_vars

\* a bullet item, a nested bullet item and an ordered item at the nested
\* indent: the outer item holds its paragraph, the bullet list and, after
\* it, the ordered list
C19_Witness ==
  /\ Done
  /\ Len(result.content) = 1
  /\ result.content[1].type = "bulletList"
  /\ Len(result.content[1].content) = 1
  /\ Len(result.content[1].content[1].content) = 3
  /\ result.content[1].content[1].content[1].type = "paragraph"
  /\ result.content[1].content[1].content[2].type = "bulletList"
  /\ Len(result.content[1].content[1].content[2].content) = 1
  /\ result.content[1].content[1].content[3].type = "orderedList"
  /\ Len(result.content[1].content[1].content[3].content) = 1

(***************************************************************************)
(* C20.  A step at a list item leaves on the stack, below the item's       *)
(* entry, exactly the entries that are not deeper than the item.  When     *)
(* the innermost of them has the item's indent and kind, the step creates  *)
(* no list: that entry stays on top, the item is appended to its list and  *)
(* nothing else changes.  So items of one kind and indent with only        *)
(* deeper items or continuation lines between them are in one list.        *)
(***************************************************************************)
C20_PopStep ==
  (InLoop /\ ~C14_Blank(rawLine) /\ C16_Rule \in {"bullet", "ordered"}) =>
    /\ Len(listStack') > 0
    /\ listStack'[Len(listStack')].indent = C10_Indent
    /\ \A k \in 1..(Len(listStack') - 1) :
         /\ k <= Len(C19_Kept)
         /\ listStack'[k] = C19_Kept[k]
         /\ listStack'[k].indent < C10_Indent
    /\ Len(listStack') >= Len(C19_Kept)

C20_ReuseStep ==
  (/\ InLoop
   /\ ~C14_Blank(rawLine)
   /\ C16_Rule \in {"bullet", "ordered"}
   /\ Len(C19_Kept) > 0
   /\ C19_Kept[Len(C19_Kept)].indent = C10_Indent
   /\ C19_Kept[Len(C19_Kept)].type = C19_Kind)
  =>
    LET list == C19_Kept[Len(C19_Kept)].node IN
      /\ listStack' = C19_Kept
      /\ blocks' = blocks
      /\ Len(heap') = Len(heap) + 1
      /\ heap'[Len(heap')].type = "listItem"
      /\ heap'[list] = [heap[list] EXCEPT
                          !.content = Append(@, Ref(Len(heap) + 1))]
      /\ \A id \in 1..Len(heap) : id # list => heap'[id] = heap[id]

C20_ReusedList == [][C20_PopStep /\ C20_ReuseStep]_vars

\* a bullet item, a deeper bullet item and a bullet item at the first
\* indent: one list of two items, the first holding the nested list
C20_Witness ==
  /\ Done
  /\ Len(InputLines) = 3
  /\ Len(result.content) = 1
  /\ result.content[1].type = "bulletList"
  /\ Len(result.content[1].content) = 2
  /\ Len(result.content[1].content[1].content) = 2
  /\ result.content[1].content[1].content[2].type = "bulletList"
  /\ Len(result.content[1].content[2].content) = 1

(***************************************************************************)
(* C21.  The paragraph buffer holds the trimmed lines of the run of        *)
(* default lines that ends at the line before the cursor.  A step at a     *)
(* default line adds its trimmed text to the buffer, emits nothing and     *)
(* tokenizes nothing; any other step (a blank line, a fence, a table, a    *)
(* blockquote, a heading, a list item, the end of the lines) leaves the    *)
(* buffer empty and, when it was not, emits exactly one paragraph before   *)
(* anything else: the tokenizer's nodes for the buffered lines joined by   *)
(* single spaces, handed to the tokenizer as one text.  Besides that text  *)
(* the step tokenizes only the texts of the block it adds: none at a       *)
(* blank line, a fence, a blockquote or the end, one at a heading or a     *)
(* list item.                                                              *)
(***************************************************************************)
C21_Joined == Join(paragraphLines, <<" ">>)

\* what the step emitted into the running call's blocks
C21_Emitted ==
  IF Len(callStack') > Len(callStack)
    THEN callStack'[Len(callStack')].blocks
  ELSE IF Len(callStack') < Len(callStack)
    THEN blocks'[Len(blocks')].content
    ELSE blocks'

C21_Step ==
  /\ pc = "loop" =>
       /\ i >= Len(paragraphLines)
       /\ \A k \in 1..Len(paragraphLines) :
            paragraphLines[k] = Trim(Line(i - Len(paragraphLines) + k - 1))
  /\ IF InLoop /\ ~C14_Blank(rawLine) /\ C16_Rule = "default"
       THEN /\ paragraphLines' = Append(paragraphLines, Trim(rawLine))
            /\ inlineCalls' = {}
            /\ UNCHANGED <<blocks, heap, callStack>>
       ELSE /\ paragraphLines' = <<>>
            /\ Len(paragraphLines) > 0 =>
                 /\ Len(C21_Emitted) \in {Len(blocks) + 1, Len(blocks) + 2}
                 /\ C21_Emitted[Len(blocks) + 1]
                      = [type |-> "paragraph",
                         content |-> parseMarkdownInline(C21_Joined)]
                 /\ C21_Joined \in inlineCalls'
                 /\ (~InLoop \/ C14_Blank(rawLine)
                       \/ C16_Rule \in {"fence", "quote"})
                      => inlineCalls' = {C21_Joined}
                 /\ (/\ InLoop /\ ~C14_Blank(rawLine)
                     /\ C16_Rule \in {"heading", "bullet", "ordered"})
                      => Cardinality(inlineCalls') <= 2
                 /\ Len(C21_Emitted) = Len(blocks) + 2
                      => /\ InLoop
                         /\ ~C14_Blank(rawLine)
                         /\ C21_Emitted[Len(blocks) + 2].type # "paragraph"

C21_ParagraphOfRun == [][C21_Step]_vars

\* three default lines (the first ended by a carriage return and a line
\* feed, the last by a carriage return) have become one paragraph of
\* their trimmed texts joined by spaces
C21_Witness ==
  /\ Done
  /\ InputLines = <<(<<"a">>), (<<"1", "|", "|", "3">>), (<<"a", "\r">>)>>
  /\ result.content
       = <<[type |-> "paragraph",
            content |-> <<TextNode(<<"a", " ", "1", "|", "|", "3", " ", "a">>)>>]>>

(***************************************************************************)
(* C22.  The tokenizer loses no unmatched text.  For every text a step     *)
(* hands to it for which it returns no marked node, the texts of the       *)
(* returned nodes, concatenated in order, are the text.  On every rest of  *)
(* such a text that begins with a special character ("*", "_", a           *)
(* backquote, "[", "]" or "~~") and with no complete pattern, one          *)
(* iteration emits that one character as an unmarked text node and goes    *)
(* on after it.                                                            *)
(***************************************************************************)
C22_Unmarked(nodes) == \A k \in 1..Len(nodes) : "marks" \notin DOMAIN nodes[k]

C22_SpecialFirst(remaining) ==
  \/ remaining[1] \in {"*", "_", BQ, "[", "]"}
  \/ Len(remaining) >= 2 /\ remaining[1] = "~" /\ remaining[2] = "~"

C22_CallOk(t) ==
  /\ C22_Unmarked(parseMarkdownInline(t))
       => C15_Texts(parseMarkdownInline(t)) = t
  /\ \A k \in 1..Len(t) :
       LET remaining == Slice(t, k - 1) IN
         (/\ C22_SpecialFirst(remaining)
          /\ \A p \in 1..7 : ~PatternMatch(p, remaining).matched)
         => /\ InlineStep(remaining).nodes
                 = <<[type |-> "text", text |-> <<remaining[1]>>]>>
            /\ InlineStep(remaining).remaining = Tail(remaining)

\* every text handed to the tokenizer in the step
C22_Step == \A t \in inlineCalls' : C22_CallOk(t)

C22_NoTextLost == [][C22_Step]_vars

\* a line of delimiters that open no pattern has become unmarked nodes
\* that spell the line
C22_Witness ==
  /\ Done
  /\ <<"~", "~", "a", "*">> \in inlineCalls
  /\ result.content
       = <<[type |-> "paragraph",
            content |-> <<TextNode(<<"~">>), TextNode(<<"~", "a">>),
                          TextNode(<<"*">>)>>]>>

(***************************************************************************)
(* C23.  Every list item, in the lists under construction and in the       *)
(* returned document, holds exactly one paragraph, as its first child,     *)
(* and after it only bullet and ordered lists; every list holds at least   *)
(* one item, and only items.                                               *)
(***************************************************************************)
C23_ListTypes == {"bulletList", "orderedList"}

\* the types of the children of a node of the heap or of the document
C23_ChildType(hp, child) ==
  IF child.type = "ref" THEN hp[child.id].type ELSE child.type

C23_NodeOk(hp, n) ==
  /\ n.type = "listItem" =>
       /\ Len(n.content) >= 1
       /\ C23_ChildType(hp, n.content[1]) = "paragraph"
       /\ \A k \in 2..Len(n.content) :
            C23_ChildType(hp, n.content[k]) \in C23_ListTypes
  /\ n.type \in C23_ListTypes =>
       /\ Len(n.content) >= 1
       /\ \A k \in 1..Len(n.content) :
            C23_ChildType(hp, n.content[k]) = "listItem"

C23_ListItemShape ==
  /\ \A id \in 1..Len(heap) : C23_NodeOk(heap, heap[id])
  /\ Done => \A n \in NodesOf(result) : C23_NodeOk(<<>>, n)

\* an item of the document holds its paragraph and a nested ordered list
C23_Witness ==
  /\ Done
  /\ Len(InputLines) = 2
  /\ result.content[1].type = "bulletList"
  /\ Len(result.content[1].content) = 1
  /\ Len(result.content[1].content[1].content) = 2
  /\ result.content[1].content[1].content[1].type = "paragraph"
  /\ result.content[1].content[1].content[2].type = "orderedList"

(***************************************************************************)
(* C24.  Between two steps of the line loop the indents of the list-stack  *)
(* entries increase strictly from the bottom of the stack to its top.      *)
(***************************************************************************)
C24_IndentsIncrease ==
  \A k \in 1..(Len(listStack) - 1) :
    listStack[k].indent < listStack[k + 1].indent

\* items at the indents 0, 2 and 4 were open when an item at indent 1
\* came: the stack holds the entries of the indents 0 and 1
C24_Witness ==
  /\ pc = "loop"
  /\ i = 4
  /\ Len(listStack) = 2
  /\ listStack[1].indent = 0
  /\ listStack[2].indent = 1
  /\ Len(heap) = 8

(***************************************************************************)
(* C25.  Between two steps of the line loop the paragraph buffer and the   *)
(* list stack are never both non-empty.                                    *)
(***************************************************************************)
C25_BufferOrStack == ~(Len(paragraphLines) > 0 /\ Len(listStack) > 0)

\* a plain line came while a list was open: the line is buffered, the
\* list is still among the blocks and the stack is empty
C25_Witness ==
  /\ pc = "loop"
  /\ Len(paragraphLines) = 1
  /\ Len(blocks) = 1
  /\ blocks[1].type = "ref"
  /\ Len(heap[blocks[1].id].content) = 1
  /\ listStack = <<>>

(***************************************************************************)
(* C26.  Between two steps of the line loop, when lists are open: the      *)
(* list of the bottom stack entry is the last block; the list of every     *)
(* other entry is the last child of the last item of the list of the       *)
(* entry below it; and the last item of the list of the top entry holds    *)
(* its paragraph and nothing else.                                         *)
(***************************************************************************)
C26_LastChild(node) == node.content[Len(node.content)]

C26_StackShape ==
  Len(listStack) > 0 =>
    /\ Len(blocks) > 0
    /\ blocks[Len(blocks)] = Ref(listStack[1].node)
    /\ \A k \in 2..Len(listStack) :
         LET below == heap[listStack[k - 1].node] IN
           /\ Len(below.content) > 0
           /\ Len(heap[C26_LastChild(below).id].content) > 1
           /\ C26_LastChild(heap[C26_LastChild(below).id])
                = Ref(listStack[k].node)
    /\ LET top == heap[listStack[Len(listStack)].node] IN
         /\ Len(top.content) > 0
         /\ Len(heap[C26_LastChild(top).id].content) = 1
         /\ heap[C26_LastChild(top).id].content[1].type = "paragraph"

\* three lists are open, each in the last item of the one below
C26_Witness ==
  /\ pc = "loop"
  /\ Len(listStack) = 3
  /\ listStack[3].indent = 4
  /\ Len(blocks) = 1

(***************************************************************************)
(* C27.  When a line is handled as a list item or as a list continuation,  *)
(* every list on the stack already has an item whose first child is a      *)
(* paragraph with text.  The step leaves no item without such a paragraph  *)
(* (no placeholder item, no placeholder paragraph), and a continuation     *)
(* puts a hardBreak after what the paragraph held.                         *)
(***************************************************************************)
C27_HasText(item) ==
  /\ Len(item.content) > 0
  /\ item.content[1].type = "paragraph"
  /\ item.content[1].content \notin {<<>>, C17_Placeholder}

C27_HasTextItem(hp, listId) ==
  \E k \in 1..Len(hp[listId].content) :
    C27_HasText(hp[hp[listId].content[k].id])

C27_Step ==
  (/\ InLoop /\ ~C14_Blank(rawLine)
   /\ C16_Rule \in {"bullet", "ordered", "continuation"}) =>
    /\ \A k \in 1..Len(listStack) : C27_HasTextItem(heap, listStack[k].node)
    /\ \A id \in 1..Len(heap') :
         heap'[id].type = "listItem" => C27_HasText(heap'[id])
    /\ C16_Rule = "continuation" =>
         LET item == LastItem(heap, listStack[Len(listStack)].node)
             old == heap[item].content[1].content
         IN /\ Len(heap') = Len(heap)
            /\ Len(heap'[item].content[1].content) > Len(old) + 1
            /\ heap'[item].content[1].content[Len(old) + 1]
                 = [type |-> "hardBreak"]

C27_NoPlaceholder == [][C27_Step]_vars

\* an item of an ordered list has taken a continuation line
C27_Witness ==
  /\ pc = "loop"
  /\ i = 2
  /\ Len(listStack) = 1
  /\ listStack[1].type = "ordered"
  /\ Len(heap) = 2
  /\ Len(heap[2].content[1].content) > 2
  /\ heap[2].content[1].content[2] = [type |-> "hardBreak"]

(***************************************************************************)
(* C28.  For every text a step hands to the tokenizer and every offset in  *)
(* it, at most one of the seven patterns matches at the start of the rest  *)
(* of the text; and the tokenizer returns the same nodes when the patterns *)
(* are tried in the order strike, strong, strong, em, em, code, link, or   *)
(* in the reverse of the array's order.                                    *)
(***************************************************************************)
C28_Matching(remaining) ==
  {p \in 1..7 : PatternMatch(p, remaining).matched}

\* the first pattern, in the order given, of those that match; 0 when
\* none does
C28_First(order, matching) ==
  IF matching = {} THEN 0
  ELSE order[CHOOSE k \in 1..7 :
               /\ order[k] \in matching
               /\ \A m \in 1..(k - 1) : order[m] \notin matching]

RECURSIVE C28_Tokens(_, _)
C28_Tokens(order, remaining) ==
  IF Len(remaining) = 0 THEN <<>>
  ELSE LET step == PatternStep(remaining,
                               C28_First(order, C28_Matching(remaining)))
       IN step.nodes \o C28_Tokens(order, step.remaining)

C28_StrongFirst == <<1, 2, 4, 3, 5, 6, 7>>

C28_Reversed == <<7, 6, 5, 4, 3, 2, 1>>

C28_CallOk(t) ==
  /\ \A k \in 0..Len(t) : Cardinality(C28_Matching(Slice(t, k))) <= 1
  /\ LET nodes == parseMarkdownInline(t) IN
       /\ C28_Tokens(C28_StrongFirst, t) = nodes
       /\ C28_Tokens(C28_Reversed, t) = nodes

\* every text handed to the tokenizer in the step
C28_Step == \A t \in inlineCalls' : C28_CallOk(t)

C28_OrderFree == [][C28_Step]_vars

\* a heading text that opens with "**" has been tokenized: of the two
\* patterns that open with "*" only the strong one matches it
C28_Witness ==
  /\ pc = "loop"
  /\ Len(blocks) = 1
  /\ blocks[1].type = "heading"
  /\ \E t \in inlineCalls :
       /\ C28_Matching(t) = {2}
       /\ blocks[1].content
            = <<[type |-> "text", text |-> SliceTo(t, 2, Len(t) - 2),
                 marks |-> <<[type |-> "strong"]>>]>>

(***************************************************************************)
(* C29.  A step that handles a fenced code block, a table, a blockquote    *)
(* or a heading leaves the list stack empty, and so does the return from   *)
(* the nested call of a blockquote.  A list item handled when the last     *)
(* block is of one of these four types, whatever its indent, opens a new   *)
(* list as the next block: the stack holds that list only, and no node     *)
(* built before changes.                                                   *)
(***************************************************************************)
C29_Kinds == {"codeBlock", "table", "blockquote", "heading"}

C29_BlockStep ==
  (/\ InLoop /\ ~C14_Blank(rawLine)
   /\ C16_Rule \in {"fence", "table", "quote", "heading"})
  => listStack' = <<>>

C29_ReturnStep ==
  Len(callStack') < Len(callStack) =>
    /\ listStack' = <<>>
    /\ blocks'[Len(blocks')].type = "blockquote"

C29_ItemStep ==
  (/\ InLoop /\ ~C14_Blank(rawLine)
   /\ C16_Rule \in {"bullet", "ordered"}
   /\ Len(blocks) > 0
   /\ blocks[Len(blocks)].type \in C29_Kinds
   /\ paragraphLines = <<>>)
  =>
    /\ listStack = <<>>
    /\ Len(listStack') = 1
    /\ listStack'[1].indent = getLineIndent(rawLine)
    /\ Len(heap') = Len(heap) + 2
    /\ listStack'[1].node = Len(heap) + 1
    /\ blocks' = Append(blocks, Ref(Len(heap) + 1))
    /\ heap'[Len(heap) + 1].content = <<Ref(Len(heap) + 2)>>
    /\ \A id \in 1..Len(heap) : heap'[id] = heap[id]

C29_BlockClosesLists ==
  [][C29_BlockStep /\ C29_ReturnStep /\ C29_ItemStep]_vars

\* an indented item after a table that followed a list has become a list
\* of its own, after the table
C29_Witness ==
  /\ Done
  /\ Len(InputLines) = 4
  /\ getLineIndent(InputLines[4]) = 2
  /\ Len(result.content) = 3
  /\ result.content[1].type = "bulletList"
  /\ Len(result.content[1].content) = 1
  /\ Len(result.content[1].content[1].content) = 1
  /\ result.content[2].type = "table"
  /\ result.content[3].type = "orderedList"
  /\ Len(result.content[3].content) = 1

(***************************************************************************)
(* C30.  As stated: every request to /mcp, /sse or /messages whose         *)
(* Authorization header carries no bearer token of the configured set is   *)
(* answered 401, both session maps stay as they are and the request goes   *)
(* to no transport of an existing session.                                 *)
(* As the server does it: such a request changes neither map and reaches   *)
(* no transport; it is answered 401 when express.json accepts its body     *)
(* and a route takes it (any method on /mcp, GET on /sse, POST on          *)
(* /messages), 400 when the body does not parse, and 404 when no route     *)
(* takes it.                                                               *)
(***************************************************************************)
\* the header is "Bearer" in any case, whitespace, and a token of the set,
\* which may have whitespace around it
C30_Carries(req) ==
  /\ req.authorization # <<>>
  /\ LET header == req.authorization[1] IN
       \E token \in authTokens :
         \E k \in 7..Len(header) :
           /\ [n \in 1..6 |-> ToLowerCase(header[n])]
                = <<"b", "e", "a", "r", "e", "r">>
           /\ \A m \in 7..k : header[m] \in WhiteSpace
           /\ Len(token) > 0
           /\ Trim(Slice(header, k)) = token

\* the step in which the request in hand is answered
C30_Answered == stage \in {"json", "route"} /\ stage' = "done"

C30_Untouched ==
  /\ sessions' = sessions
  /\ streamableHttpSessions' = streamableHttpSessions
  /\ reached' = <<>>

C30_Routed(req) ==
  \/ req.path = "/mcp"
  \/ req.path = "/sse" /\ req.method = "GET"
  \/ req.path = "/messages" /\ req.method = "POST"

C30_StatedStep ==
  (C30_Answered /\ ~C30_Carries(request)) =>
    /\ status' = 401
    /\ C30_Untouched

C30_UnauthorizedIs401 == [][C30_StatedStep]_httpVars

C30_Step ==
  (C30_Answered /\ ~C30_Carries(request)) =>
    /\ C30_Untouched
    /\ status' = (IF request.body = "malformed" THEN 400
                  ELSE IF C30_Routed(request) THEN 401
                  ELSE 404)

C30_UnauthorizedIsRefused == [][C30_Step]_httpVars

\* a POST to /messages that names an open SSE session, with a bearer token
\* that is not configured, has been answered 401; the session is still open
C30_Witness ==
  /\ stage = "done"
  /\ status = 401
  /\ request.path = "/messages"
  /\ request.authorization = <<(<<"B", "e", "a", "r", "e", "r", " ", "u">>)>>
  /\ request.sessionId # <<>>
  /\ request.sessionId[1] \in sessions
  /\ streamableHttpSessions # {}
  /\ reached = <<>>

=============================================================================
